---- MODULE Spec2Model ----
(***************************************************************************)
(* Verification model of ai-youtube-transcript.                            *)
(*                                                                         *)
(* Strings are modelled as sequences: a JavaScript string is a sequence of *)
(* atoms, concatenation is \o and the empty string is << >>.  In the       *)
(* catalog model an atom is a fragment of text (a language code, a fixed   *)
(* piece of a message template); in the identifier model an atom is one    *)
(* character.                                                              *)
(***************************************************************************)
EXTENDS Integers, Sequences, FiniteSets, TLC

VARIABLES
    listVideoId,   \* TranscriptList.videoId
    transcripts,   \* TranscriptList._transcripts
    call,          \* the operation invoked last, with its arguments
    receiver,      \* the object the last method was invoked on, after the call
    ret,           \* the outcome of the last operation: a value or an error
    input,         \* the string handed to Helpers.extractVideoId
    idRet,         \* the outcome of Helpers.extractVideoId
    pc,            \* where YoutubeTranscript.fetch stands
    frame,         \* the locals of YoutubeTranscript.fetch across its awaits
    requests       \* the requests handed to the HTTP transport, in order

vars == <<listVideoId, transcripts, call, receiver, ret, input, idRet,
          pc, frame, requests>>

fetchVars == <<pc, frame, requests>>

-----------------------------------------------------------------------------
(* Bounds *)

MaxTracks == 3     \* longest catalog
MaxPrefs == 2      \* longest language preference list
MaxElements == 2   \* most elements of a document of both formats
MaxBatch == 2      \* most video identifiers on the command line

-----------------------------------------------------------------------------
(* JavaScript string and array primitives *)

NoValue == [none |-> TRUE]

\* Array.prototype.join on a sequence of strings
RECURSIVE Join(_, _)
Join(strs, sep) ==
    IF strs = << >> THEN << >>
    ELSE IF Len(strs) = 1 THEN strs[1]
    ELSE strs[1] \o sep \o Join(Tail(strs), sep)

\* a || b on strings: the empty string is falsy
OrElse(a, b) == IF a = << >> THEN b ELSE a

\* Array.prototype.findIndex over the sequence of the predicate's values:
\* the first position that holds TRUE, 0 when none does
FindIndex(hits) ==
    IF \E i \in 1..Len(hits) : hits[i]
    THEN CHOOSE i \in 1..Len(hits) : hits[i] /\ \A j \in 1..(i - 1) : ~hits[j]
    ELSE 0

\* the position of the first lang of langs with the given code, 0 when none
IndexOfCode(langs, code) ==
    FindIndex([i \in 1..Len(langs) |-> langs[i].languageCode = code])

\* the position of atom a in string s, 0 when absent
IndexOfAtom(s, a) == FindIndex([i \in 1..Len(s) |-> s[i] = a])

\* Array.prototype.map(t => t.languageCode)
CodesOf(s) == [i \in 1..Len(s) |-> s[i].languageCode]

\* the sequences over S of length at most n
SeqsUpTo(S, n) == UNION {[1..k -> S] : k \in 0..n}

-----------------------------------------------------------------------------
(* Errors (src/errors/index.ts) *)

\* the base class prefixes every message with a tag (the tag's emoji is
\* left out of the atom)
ErrorPrefix == <<"[YoutubeTranscript] ">>

YoutubeTranscriptError(message) ==
    [name |-> "YoutubeTranscriptError", message |-> ErrorPrefix \o message]

YoutubeTranscriptTranslationError(message) ==
    [name |-> "YoutubeTranscriptTranslationError", message |-> ErrorPrefix \o message]

YoutubeTranscriptNotAvailableLanguageError(lang, availableLangs, videoId) ==
    [name |-> "YoutubeTranscriptNotAvailableLanguageError",
     message |-> ErrorPrefix \o <<"No transcripts are available in ">> \o lang
                 \o <<" for this video (">> \o videoId
                 \o <<"). Available languages: ">> \o Join(availableLangs, <<", ">>)]

Return(v) == [kind |-> "return", value |-> v]
Throw(e) == [kind |-> "throw", error |-> e]
NoOutcome == [kind |-> "none"]

-----------------------------------------------------------------------------
(* Transcript (src/models/transcript.ts) *)

Transcript(videoId, language, languageCode, isGenerated, isTranslatable, translationLanguages, baseUrl) ==
    [videoId |-> videoId, language |-> language, languageCode |-> languageCode,
     isGenerated |-> isGenerated, isTranslatable |-> isTranslatable,
     translationLanguages |-> translationLanguages, baseUrl |-> baseUrl]

\* translate without the isTranslatable guard
translate_NoGuard(this, languageCode) ==
    LET idx == IndexOfCode(this.translationLanguages, languageCode)
    IN  IF idx = 0
        THEN [this |-> this,
              out |-> Throw(YoutubeTranscriptTranslationError(
                          <<"This transcript cannot be translated to ">> \o languageCode
                          \o <<". Available languages: ">>
                          \o Join(CodesOf(this.translationLanguages), <<", ">>)))]
        ELSE [this |-> this,
              out |-> Return(Transcript(this.videoId,
                          OrElse(this.translationLanguages[idx].languageName, languageCode),
                          languageCode, this.isGenerated, FALSE, << >>,
                          this.baseUrl \o <<"&tlang=">> \o languageCode))]

\* translate that rewrites the receiver in place and returns it
translate_InPlace(this, languageCode) ==
    LET idx == IndexOfCode(this.translationLanguages, languageCode)
    IN  IF ~this.isTranslatable
        THEN [this |-> this,
              out |-> Throw(YoutubeTranscriptTranslationError(
                          <<"This transcript cannot be translated">>))]
        ELSE IF idx = 0
        THEN [this |-> this,
              out |-> Throw(YoutubeTranscriptTranslationError(
                          <<"This transcript cannot be translated to ">> \o languageCode
                          \o <<". Available languages: ">>
                          \o Join(CodesOf(this.translationLanguages), <<", ">>)))]
        ELSE LET t == Transcript(this.videoId,
                          OrElse(this.translationLanguages[idx].languageName, languageCode),
                          languageCode, this.isGenerated, FALSE, << >>,
                          this.baseUrl \o <<"&tlang=">> \o languageCode)
             IN  [this |-> t, out |-> Return(t)]

\* translate that takes the display name without the fallback to the code
translate_NoNameFallback(this, languageCode) ==
    LET idx == IndexOfCode(this.translationLanguages, languageCode)
    IN  IF ~this.isTranslatable
        THEN [this |-> this,
              out |-> Throw(YoutubeTranscriptTranslationError(
                          <<"This transcript cannot be translated">>))]
        ELSE IF idx = 0
        THEN [this |-> this,
              out |-> Throw(YoutubeTranscriptTranslationError(
                          <<"This transcript cannot be translated to ">> \o languageCode
                          \o <<". Available languages: ">>
                          \o Join(CodesOf(this.translationLanguages), <<", ">>)))]
        ELSE [this |-> this,
              out |-> Return(Transcript(this.videoId,
                          this.translationLanguages[idx].languageName,
                          languageCode, this.isGenerated, FALSE, << >>,
                          this.baseUrl \o <<"&tlang=">> \o languageCode))]

\* translate whose result can be translated again
translate_Composable(this, languageCode) ==
    LET idx == IndexOfCode(this.translationLanguages, languageCode)
    IN  IF ~this.isTranslatable
        THEN [this |-> this,
              out |-> Throw(YoutubeTranscriptTranslationError(
                          <<"This transcript cannot be translated">>))]
        ELSE IF idx = 0
        THEN [this |-> this,
              out |-> Throw(YoutubeTranscriptTranslationError(
                          <<"This transcript cannot be translated to ">> \o languageCode
                          \o <<". Available languages: ">>
                          \o Join(CodesOf(this.translationLanguages), <<", ">>)))]
        ELSE [this |-> this,
              out |-> Return(Transcript(this.videoId,
                          OrElse(this.translationLanguages[idx].languageName, languageCode),
                          languageCode, this.isGenerated, TRUE, this.translationLanguages,
                          this.baseUrl \o <<"&tlang=">> \o languageCode))]

\* Transcript.translate.  The method runs on the object `this` and may
\* assign its fields, so the operator yields the receiver as the call leaves
\* it together with the outcome.
translate(this, languageCode) ==
    LET idx == IndexOfCode(this.translationLanguages, languageCode)
    IN  IF ~this.isTranslatable
        THEN [this |-> this,
              out |-> Throw(YoutubeTranscriptTranslationError(
                          <<"This transcript cannot be translated">>))]
        ELSE IF idx = 0
        THEN [this |-> this,
              out |-> Throw(YoutubeTranscriptTranslationError(
                          <<"This transcript cannot be translated to ">> \o languageCode
                          \o <<". Available languages: ">>
                          \o Join(CodesOf(this.translationLanguages), <<", ">>)))]
        ELSE LET translationUrl == this.baseUrl \o <<"&tlang=">> \o languageCode
                 languageName ==
                     OrElse(this.translationLanguages[idx].languageName, languageCode)
             IN  [this |-> this,
                  out |-> Return(Transcript(this.videoId, languageName, languageCode,
                                            this.isGenerated, FALSE, << >>,
                                            translationUrl))]

-----------------------------------------------------------------------------
(* TranscriptList (src/models/transcript.ts) *)

\* the lookup loop shared by the three find methods: the first preference
\* code for which Array.find gives a handle, or 0
\* (kinds is the set of isGenerated values the find predicate lets through)
FirstHit(ts, languageCodes, kinds) ==
    LET find(k) == FindIndex([i \in 1..Len(ts) |->
                       ts[i].languageCode = languageCodes[k] /\ ts[i].isGenerated \in kinds])
        k0 == FindIndex([k \in 1..Len(languageCodes) |-> find(k) # 0])
    IN  IF k0 = 0 THEN 0 ELSE find(k0)

AnyKind == {TRUE, FALSE}       \* t => t.languageCode === languageCode
ManualKind == {FALSE}          \* ... && !t.isGenerated
GeneratedKind == {TRUE}        \* ... && t.isGenerated

\* filter(t => kind test).map(t => t.languageCode)
CodesOfKind(ts, kinds) == CodesOf(SelectSeq(ts, LAMBDA t : t.isGenerated \in kinds))

\* a lookup that walks the catalog first and the preference list second
findTranscript_CatalogOrder(ts, videoId, languageCodes) ==
    LET i == FindIndex([h \in 1..Len(ts) |->
                 \E k \in 1..Len(languageCodes) : ts[h].languageCode = languageCodes[k]])
    IN  IF i # 0 THEN Return(ts[i])
        ELSE Throw(YoutubeTranscriptError(
                 <<"No transcripts found in languages: ">>
                 \o Join(languageCodes, <<", ">>)
                 \o <<" for video ">> \o videoId
                 \o <<". Available languages: ">>
                 \o Join(CodesOf(ts), <<", ">>)))

findTranscript(ts, videoId, languageCodes) ==
    LET i == FirstHit(ts, languageCodes, AnyKind)
    IN  IF i # 0 THEN Return(ts[i])
        ELSE Throw(YoutubeTranscriptError(
                 <<"No transcripts found in languages: ">>
                 \o Join(languageCodes, <<", ">>)
                 \o <<" for video ">> \o videoId
                 \o <<". Available languages: ">>
                 \o Join(CodesOf(ts), <<", ">>)))

\* a manual-only lookup that finds by code alone and tests the kind after
findManuallyCreatedTranscript_KindAfter(ts, videoId, languageCodes) ==
    LET i == FirstHit(ts, languageCodes, AnyKind)
        availableLanguages == CodesOfKind(ts, ManualKind)
    IN  IF i # 0 /\ ~ts[i].isGenerated THEN Return(ts[i])
        ELSE Throw(YoutubeTranscriptError(
                 <<"No manually created transcripts found in languages: ">>
                 \o Join(languageCodes, <<", ">>)
                 \o <<" for video ">> \o videoId
                 \o <<". Available languages: ">>
                 \o OrElse(Join(availableLanguages, <<", ">>), <<"none">>)))

findManuallyCreatedTranscript(ts, videoId, languageCodes) ==
    LET i == FirstHit(ts, languageCodes, ManualKind)
        availableLanguages == CodesOfKind(ts, ManualKind)
    IN  IF i # 0 THEN Return(ts[i])
        ELSE Throw(YoutubeTranscriptError(
                 <<"No manually created transcripts found in languages: ">>
                 \o Join(languageCodes, <<", ">>)
                 \o <<" for video ">> \o videoId
                 \o <<". Available languages: ">>
                 \o OrElse(Join(availableLanguages, <<", ">>), <<"none">>)))

findGeneratedTranscript(ts, videoId, languageCodes) ==
    LET i == FirstHit(ts, languageCodes, GeneratedKind)
        availableLanguages == CodesOfKind(ts, GeneratedKind)
    IN  IF i # 0 THEN Return(ts[i])
        ELSE Throw(YoutubeTranscriptError(
                 <<"No automatically generated transcripts found in languages: ">>
                 \o Join(languageCodes, <<", ">>)
                 \o <<" for video ">> \o videoId
                 \o <<". Available languages: ">>
                 \o OrElse(Join(availableLanguages, <<", ">>), <<"none">>)))

-----------------------------------------------------------------------------
(* Inputs of the catalog model *)

VideoIds == {<<"dQw4w9WgXcQ">>}
PrefCodes == {<<"en">>, <<"fr">>, <<"de">>}
TargetCodes == {<<"de">>, <<"es">>, <<"fr">>}

LangInfo(code, name) == [languageCode |-> code, languageName |-> name]

\* translation-language lists as the catalog builder leaves them; the display
\* name of "es" is the empty string and "de" is listed twice
TransListFull ==
    <<LangInfo(<<"de">>, <<"German">>), LangInfo(<<"es">>, << >>),
      LangInfo(<<"de">>, <<"Deutsch">>)>>
TransListShort == <<LangInfo(<<"de">>, <<"German">>)>>

TrackUrl(videoId, code, gen) ==
    <<"https://www.youtube.com/api/timedtext?v=">> \o videoId
    \o <<"&lang=">> \o code \o (IF gen THEN <<"&kind=asr">> ELSE << >>)

\* the handles a catalog is drawn from: both codes in both kinds, with the
\* three shapes of translation data (translatable with a list, not
\* translatable though a list is present, translatable with an empty list)
Handles(videoId) ==
    {Transcript(videoId, <<"English">>, <<"en">>, FALSE, TRUE, TransListFull,
                TrackUrl(videoId, <<"en">>, FALSE)),
     Transcript(videoId, <<"English (auto-generated)">>, <<"en">>, TRUE, FALSE,
                TransListShort, TrackUrl(videoId, <<"en">>, TRUE)),
     Transcript(videoId, <<"French">>, <<"fr">>, FALSE, TRUE, << >>,
                TrackUrl(videoId, <<"fr">>, FALSE)),
     Transcript(videoId, <<"French (auto-generated)">>, <<"fr">>, TRUE, TRUE,
                TransListFull, TrackUrl(videoId, <<"fr">>, TRUE))}

Catalogs(videoId) == SeqsUpTo(Handles(videoId), MaxTracks)

\* preference lists: up to MaxPrefs codes, none repeated
PrefLists ==
    {p \in SeqsUpTo(PrefCodes, MaxPrefs) :
        \A i, j \in 1..Len(p) : i # j => p[i] # p[j]}

-----------------------------------------------------------------------------
(* The catalog model: a TranscriptList after construction, and the calls a *)
(* caller makes on it and on the handles it hands out                      *)

IdIdle == /\ input = << >>
          /\ idRet = NoOutcome

FetchIdle == /\ pc = "idle"
             /\ frame = NoValue
             /\ requests = << >>

InitCatalog ==
    /\ listVideoId \in VideoIds
    /\ transcripts \in Catalogs(listVideoId)
    /\ call = [op |-> "new"]
    /\ receiver = NoValue
    /\ ret = NoOutcome
    /\ IdIdle
    /\ FetchIdle

FindTranscript ==
    \E languageCodes \in PrefLists :
        /\ call' = [op |-> "findTranscript", languageCodes |-> languageCodes]
        /\ ret' = findTranscript(transcripts, listVideoId, languageCodes)
        /\ receiver' = NoValue
        /\ UNCHANGED <<listVideoId, transcripts, input, idRet, fetchVars>>

FindManuallyCreatedTranscript ==
    \E languageCodes \in PrefLists :
        /\ call' = [op |-> "findManuallyCreatedTranscript",
                    languageCodes |-> languageCodes]
        /\ ret' = findManuallyCreatedTranscript(transcripts, listVideoId, languageCodes)
        /\ receiver' = NoValue
        /\ UNCHANGED <<listVideoId, transcripts, input, idRet, fetchVars>>

FindGeneratedTranscript ==
    \E languageCodes \in PrefLists :
        /\ call' = [op |-> "findGeneratedTranscript", languageCodes |-> languageCodes]
        /\ ret' = findGeneratedTranscript(transcripts, listVideoId, languageCodes)
        /\ receiver' = NoValue
        /\ UNCHANGED <<listVideoId, transcripts, input, idRet, fetchVars>>

\* translate called on the i-th handle of the catalog
TranslateListed ==
    \E i \in 1..Len(transcripts), languageCode \in TargetCodes :
        LET r == translate(transcripts[i], languageCode)
        IN  /\ call' = [op |-> "translate", this |-> transcripts[i], index |-> i,
                        languageCode |-> languageCode]
            /\ transcripts' = [transcripts EXCEPT ![i] = r.this]
            /\ receiver' = r.this
            /\ ret' = r.out
            /\ UNCHANGED <<listVideoId, input, idRet, fetchVars>>

\* translate called on the handle a previous translate returned
TranslateDerived ==
    /\ call.op = "translate"
    /\ ret.kind = "return"
    /\ \E languageCode \in TargetCodes :
        LET r == translate(ret.value, languageCode)
        IN  /\ call' = [op |-> "translate", this |-> ret.value, index |-> 0,
                        languageCode |-> languageCode]
            /\ receiver' = r.this
            /\ ret' = r.out
            /\ UNCHANGED <<listVideoId, transcripts, input, idRet, fetchVars>>

NextCatalog ==
    \/ FindTranscript
    \/ FindManuallyCreatedTranscript
    \/ FindGeneratedTranscript
    \/ TranslateListed
    \/ TranslateDerived

Spec == InitCatalog /\ [][NextCatalog]_vars

-----------------------------------------------------------------------------
(* Characters and the URL pattern (src/utils/constants.ts).  In this part  *)
(* a string is a sequence of one-character atoms.                          *)

IdLen == 11

UpperCase ==
    <<"A", "B", "C", "D", "E", "F", "G", "H", "I", "J", "K", "L", "M", "N", "O", "P", "Q", "R", "S", "T", "U", "V", "W", "X", "Y", "Z">>
LowerCase ==
    <<"a", "b", "c", "d", "e", "f", "g", "h", "i", "j", "k", "l", "m", "n", "o", "p", "q", "r", "s", "t", "u", "v", "w", "x", "y", "z">>
Digits == {"0", "1", "2", "3", "4", "5", "6", "7", "8", "9"}

\* the /i flag: letters compare by their lower-case form
ToLower(c) ==
    IF \E i \in 1..Len(UpperCase) : UpperCase[i] = c
    THEN LowerCase[CHOOSE i \in 1..Len(UpperCase) : UpperCase[i] = c]
    ELSE c

WhiteSpace == {" ", "\t", "\n", "\r"}          \* \s
LineTerminators == {"\n", "\r"}                \* what . does not match

GroupClass(c) == c \notin ({"\"", "&", "?", "/"} \cup WhiteSpace)   \* [^"&?\/\s]
AnyChar(c) == c \notin LineTerminators                              \* .

MaxOf(S) == CHOOSE x \in S : \A y \in S : y <= x
MinOf(S) == CHOOSE x \in S : \A y \in S : x <= y

LitYoutubeCom == <<"y", "o", "u", "t", "u", "b", "e", ".", "c", "o", "m", "/">>
LitYoutuBe == <<"y", "o", "u", "t", "u", ".", "b", "e", "/">>
LitV == <<"v", "/">>
LitE == <<"e", "/">>
LitEmbed == <<"e", "m", "b", "e", "d", "/">>
LitVEq == <<"v", "=">>

\* the literal `lit` (given in lower case) stands at position i of s
LitAt(s, i, lit) ==
    /\ i >= 1
    /\ i + Len(lit) - 1 <= Len(s)
    /\ \A k \in 1..Len(lit) : ToLower(s[i + k - 1]) = lit[k]

\* a capture group that ignores the character class
GroupAt_AnyChar(s, j) == j + IdLen - 1 <= Len(s)

\* the capture group ([^"&?\/\s]{11}) matches at position j of s
GroupAt(s, j) ==
    /\ j + IdLen - 1 <= Len(s)
    /\ \A k \in j..(j + IdLen - 1) : GroupClass(s[k])

\* [^\/]+\/.+\/ from position p, followed by the group: where the group
\* starts, or 0.  [^\/]+ can only end at the first slash; the greedy .+
\* gives way from the right, so the last slash the group can follow wins.
PathAlt(s, p) ==
    LET firstSlash == {q \in (p + 1)..Len(s) :
                          s[q] = "/" /\ \A k \in p..(q - 1) : s[k] # "/"}
    IN  IF firstSlash = {} THEN 0
        ELSE LET q == MinOf(firstSlash)
                 ends == {r \in (q + 2)..Len(s) :
                             /\ s[r] = "/"
                             /\ \A k \in (q + 1)..(r - 1) : AnyChar(s[k])
                             /\ GroupAt(s, r + 1)}
             IN  IF ends = {} THEN 0 ELSE MaxOf(ends) + 1

\* the alternative without v/
EmbedAlt_NoV(s, p) ==
    IF LitAt(s, p, LitEmbed) /\ GroupAt(s, p + Len(LitEmbed)) THEN p + Len(LitEmbed)
    ELSE IF LitAt(s, p, LitE) /\ GroupAt(s, p + Len(LitE)) THEN p + Len(LitE)
    ELSE 0

\* (?:v|e(?:mbed)?)\/ from position p, followed by the group
EmbedAlt(s, p) ==
    IF LitAt(s, p, LitV) /\ GroupAt(s, p + Len(LitV)) THEN p + Len(LitV)
    ELSE IF LitAt(s, p, LitEmbed) /\ GroupAt(s, p + Len(LitEmbed)) THEN p + Len(LitEmbed)
    ELSE IF LitAt(s, p, LitE) /\ GroupAt(s, p + Len(LitE)) THEN p + Len(LitE)
    ELSE 0

\* .*[?&]v= from position p, followed by the group; the greedy .* gives way
\* from the right
QueryAlt(s, p) ==
    LET ends == {r \in p..Len(s) :
                    /\ s[r] \in {"?", "&"}
                    /\ LitAt(s, r + 1, LitVEq)
                    /\ \A k \in p..(r - 1) : AnyChar(s[k])
                    /\ GroupAt(s, r + 1 + Len(LitVEq))}
    IN  IF ends = {} THEN 0 ELSE MaxOf(ends) + 1 + Len(LitVEq)

\* the pattern tried at position i: where its group starts, or 0.  The
\* alternatives are tried in the order they are written.
MatchAt(s, i) ==
    IF LitAt(s, i, LitYoutubeCom)
    THEN LET p == i + Len(LitYoutubeCom)
         IN  IF PathAlt(s, p) # 0 THEN PathAlt(s, p)
             ELSE IF EmbedAlt(s, p) # 0 THEN EmbedAlt(s, p)
             ELSE QueryAlt(s, p)
    ELSE IF LitAt(s, i, LitYoutuBe) /\ GroupAt(s, i + Len(LitYoutuBe))
    THEN i + Len(LitYoutuBe)
    ELSE 0

\* videoId.match(Constants.RE_YOUTUBE): the leftmost match and its group 1
RE_YOUTUBE(s) ==
    LET starts == {i \in 1..Len(s) : MatchAt(s, i) # 0}
    IN  IF starts = {} THEN [matched |-> FALSE]
        ELSE LET j == MatchAt(s, MinOf(starts))
             IN  [matched |-> TRUE, group |-> SubSeq(s, j, j + IdLen - 1)]

-----------------------------------------------------------------------------
(* Helpers.extractVideoId (src/utils/helpers.ts) *)

\* a resolver that takes an 11-character input only if it looks like an
\* identifier
extractVideoId_Validating(videoId) ==
    IF Len(videoId) = IdLen /\ \A k \in 1..Len(videoId) : GroupClass(videoId[k])
    THEN Return(videoId)
    ELSE LET matchId == RE_YOUTUBE(videoId)
         IN  IF matchId.matched THEN Return(matchId.group)
             ELSE Throw(YoutubeTranscriptError(
                      <<"Impossible to retrieve YouTube video ID.">>))

extractVideoId(videoId) ==
    IF Len(videoId) = IdLen THEN Return(videoId)
    ELSE LET matchId == RE_YOUTUBE(videoId)
         IN  IF matchId.matched THEN Return(matchId.group)
             ELSE Throw(YoutubeTranscriptError(
                      <<"Impossible to retrieve YouTube video ID.">>))

-----------------------------------------------------------------------------
(* Inputs of the identifier model: a scheme prefix, a host and path, a     *)
(* token and a tail, each possibly empty                                   *)

ValidToken == <<"d", "Q", "w", "4", "w", "9", "W", "g", "X", "c", "Q">>

\* the characters put into a token to make it something else than an
\* identifier, and the positions they are put at
OddChars == {" ", "/", "?", "&", "\"", "\n", "=", "."}
OddPositions == {1, 6, IdLen}

Tokens ==
    {<< >>, ValidToken,
     <<"h", "e", "l", "l", "o", " ", "w", "o", "r", "l", "d">>,
     <<"y", "o", "u", "t", "u", ".", "b", "e", "/", "a", "b">>,
     <<"y", "o", "u", "t", "u", "b", "e", ".", "c", "o", "m">>,
     <<"a", "b", "c">>,
     <<"d", "Q", "w", "4", "w", "9", "W", "g", "X", "c", "Q", "Z">>}
    \cup {[ValidToken EXCEPT ![i] = c] : i \in OddPositions, c \in OddChars}

SchemePrefixes == {<< >>, <<"h", "t", "t", "p", "s", ":", "/", "/", "w", "w", "w", ".">>}

ShapeWatch == <<"y", "o", "u", "t", "u", "b", "e", ".", "c", "o", "m", "/", "w", "a", "t", "c", "h", "?", "v", "=">>
ShapeShort == <<"y", "o", "u", "t", "u", ".", "b", "e", "/">>
ShapeEmbed == <<"y", "o", "u", "t", "u", "b", "e", ".", "c", "o", "m", "/", "e", "m", "b", "e", "d", "/">>
ShapeV == <<"y", "o", "u", "t", "u", "b", "e", ".", "c", "o", "m", "/", "v", "/">>
KnownShapes == {ShapeWatch, ShapeShort, ShapeEmbed, ShapeV}

OtherPaths ==
    {<< >>,
     <<"y", "o", "u", "t", "u", "b", "e", ".", "c", "o", "m", "/", "e", "/">>,
     <<"y", "o", "u", "t", "u", "b", "e", ".", "c", "o", "m", "/", "u", "s", "e", "r", "/", "x", "/">>,
     <<"y", "o", "u", "t", "u", "b", "e", ".", "c", "o", "m", "/">>,
     <<"e", "x", "a", "m", "p", "l", "e", ".", "c", "o", "m", "/", "w", "a", "t", "c", "h", "?", "v", "=">>,
     <<"Y", "o", "u", "T", "u", "b", "e", ".", "c", "o", "m", "/", "W", "a", "t", "c", "h", "?", "t", "=", "1", "&", "V", "=">>,
     <<"v", "i", "m", "e", "o", ".", "c", "o", "m", "/", "e", "m", "b", "e", "d", "/">>}

Tails ==
    {<< >>, <<"&", "t", "=", "4", "2">>, <<"/">>,
     <<"&", "v", "=", "a", "a", "a", "a", "a", "a", "a", "a", "a", "a", "a">>}

Inputs ==
    {pre \o path \o tok \o tail :
        pre \in SchemePrefixes, path \in KnownShapes \cup OtherPaths,
        tok \in Tokens, tail \in Tails}

-----------------------------------------------------------------------------
(* The identifier model: one call of Helpers.extractVideoId *)

CatalogIdle ==
    /\ listVideoId = << >>
    /\ transcripts = << >>
    /\ call = [op |-> "none"]
    /\ receiver = NoValue
    /\ ret = NoOutcome

InitId ==
    /\ input \in Inputs
    /\ idRet = NoOutcome
    /\ CatalogIdle
    /\ FetchIdle

ExtractVideoId ==
    /\ idRet = NoOutcome
    /\ idRet' = extractVideoId(input)
    /\ UNCHANGED <<input, listVideoId, transcripts, call, receiver, ret, fetchVars>>

NextId == ExtractVideoId

SpecId == InitId /\ [][NextId]_vars

-----------------------------------------------------------------------------
(* Regular expressions of the segment parser (src/models/transcript.ts).   *)
(* A pattern is a sequence of items: a literal, or a class [^c] repeated   *)
(* greedily or lazily.                                                     *)

Lit(chars) == [type |-> "lit", chars |-> chars]
Star(c) == [type |-> "star", except |-> c, lazy |-> FALSE]
LazyStar(c) == [type |-> "star", except |-> c, lazy |-> TRUE]

\* the literal at position i of s, letter case respected
LiteralAt(s, i, lit) ==
    /\ i >= 1
    /\ i + Len(lit) - 1 <= Len(s)
    /\ \A k \in 1..Len(lit) : s[i + k - 1] = lit[k]

\* the position after the longest run of characters other than c from i on
RunEnd(s, i, c) == MinOf({j \in i..(Len(s) + 1) : j = Len(s) + 1 \/ s[j] = c})

\* Backtracking match of the items k.. of pattern p at position i of s: the
\* positions where each of these items starts, followed by the position
\* after the match; << >> when there is no match.  A repetition ends at the
\* first position, tried from the longest run down (greedy) or from the
\* empty run up (lazy), from which the rest of the pattern matches.
RECURSIVE MatchItems(_, _, _, _)
MatchItems(p, k, s, i) ==
    IF k > Len(p) THEN <<i>>
    ELSE IF p[k].type = "lit"
    THEN IF LiteralAt(s, i, p[k].chars)
         THEN LET rest == MatchItems(p, k + 1, s, i + Len(p[k].chars))
              IN  IF rest = << >> THEN << >> ELSE <<i>> \o rest
         ELSE << >>
    ELSE LET ends == {j \in i..RunEnd(s, i, p[k].except) :
                         MatchItems(p, k + 1, s, j) # << >>}
         IN  IF ends = {} THEN << >>
             ELSE <<i>> \o MatchItems(p, k + 1, s,
                                      IF p[k].lazy THEN MinOf(ends) ELSE MaxOf(ends))

\* the leftmost match of p in s at or after position `from`
Search(p, s, from) ==
    LET starts == {i \in from..(Len(s) + 1) : MatchItems(p, 1, s, i) # << >>}
    IN  IF starts = {} THEN << >> ELSE MatchItems(p, 1, s, MinOf(starts))

MatchStart(m) == m[1]
MatchEnd(m) == m[Len(m)]          \* the position after the match
\* the text item g of the pattern matched
Group(s, m, g) == SubSeq(s, m[g], m[g + 1] - 1)

\* String.prototype.match with a /g pattern: the matched substrings in
\* order, << >> standing for null (none of the patterns matches the empty
\* string, so a match always advances)
RECURSIVE MatchAll(_, _, _)
MatchAll(p, s, from) ==
    LET m == Search(p, s, from)
    IN  IF m = << >> THEN << >>
        ELSE <<SubSeq(s, MatchStart(m), MatchEnd(m) - 1)>> \o MatchAll(p, s, MatchEnd(m))

\* String.prototype.replace with a /g pattern
RECURSIVE ReplaceAll(_, _, _, _)
ReplaceAll(p, s, from, by) ==
    LET m == Search(p, s, from)
    IN  IF m = << >> THEN SubSeq(s, from, Len(s))
        ELSE SubSeq(s, from, MatchStart(m) - 1) \o by \o ReplaceAll(p, s, MatchEnd(m), by)

\* /<p[^>]*t="([^"]*)"[^>]*d="([^"]*?)"[^>]*>([^<]*)<\/p>/g
RE_P ==
    <<Lit(<<"<", "p">>), Star(">"), Lit(<<"t", "=", "\"">>), Star("\""), Lit(<<"\"">>), Star(">"),
      Lit(<<"d", "=", "\"">>), LazyStar("\""), Lit(<<"\"">>), Star(">"), Lit(<<">">>), Star("<"),
      Lit(<<"<", "/", "p", ">">>)>>

\* /<text[^>]*start="([^"]*)"[^>]*dur="([^"]*?)"[^>]*>([^<]*)<\/text>/g
RE_TEXT ==
    <<Lit(<<"<", "t", "e", "x", "t">>), Star(">"), Lit(<<"s", "t", "a", "r", "t", "=", "\"">>), Star("\""), Lit(<<"\"">>), Star(">"),
      Lit(<<"d", "u", "r", "=", "\"">>), LazyStar("\""), Lit(<<"\"">>), Star(">"), Lit(<<">">>), Star("<"),
      Lit(<<"<", "/", "t", "e", "x", "t", ">">>)>>

\* /NAME="([^"]*)"/, the group being item 2
RE_Attr(name) == <<Lit(name \o <<"=", "\"">>), Star("\""), Lit(<<"\"">>)>>

\* />([^<]*)</, the group being item 2
RE_Content == <<Lit(<<">">>), Star("<"), Lit(<<"<">>)>>

\* /<[^>]*>/g
RE_Tag == <<Lit(<<"<">>), Star(">"), Lit(<<">">>)>>

\* /&amp;/g and the like
RE_Entity(entity) == <<Lit(entity)>>


-----------------------------------------------------------------------------
(* Numbers of the segment parser.  A number is NaN or a fraction in lowest *)
(* terms; the timed-text attributes are decimal numerals, for which the    *)
(* quotient by 1000 is the double nearest to the exact fraction.           *)

NaN == [nan |-> TRUE]

RECURSIVE Gcd(_, _)
Gcd(a, b) == IF b = 0 THEN a ELSE Gcd(b, a % b)

Abs(x) == IF x < 0 THEN -x ELSE x

Number(num, den) ==
    LET g == Gcd(Abs(num), den)
    IN  [nan |-> FALSE, num |-> num \div g, den |-> den \div g]

\* x / n
Divide(x, n) == IF x.nan THEN NaN ELSE Number(x.num, x.den * n)

RECURSIVE Pow10(_)
Pow10(n) == IF n = 0 THEN 1 ELSE 10 * Pow10(n - 1)

DigitSeq == <<"0", "1", "2", "3", "4", "5", "6", "7", "8", "9">>
DigitValue(c) == (CHOOSE k \in 1..10 : DigitSeq[k] = c) - 1

\* the position after the run of decimal digits from i on
RECURSIVE DigitsEnd(_, _)
DigitsEnd(s, i) == IF i > Len(s) \/ s[i] \notin Digits THEN i ELSE DigitsEnd(s, i + 1)

\* the value of the decimal digits s[i..j-1]
RECURSIVE DigitsValue(_, _, _)
DigitsValue(s, i, j) ==
    IF j <= i THEN 0 ELSE 10 * DigitsValue(s, i, j - 1) + DigitValue(s[j - 1])

\* the position of the first character from i on that is not white space
RECURSIVE SkipWhiteSpace(_, _)
SkipWhiteSpace(s, i) ==
    IF i > Len(s) \/ s[i] \notin WhiteSpace THEN i ELSE SkipWhiteSpace(s, i + 1)

\* parseFloat: leading white space, a sign, digits, a point, digits; what
\* follows is ignored; NaN without a digit (exponents and Infinity are not
\* among the inputs)
parseFloat(s) ==
    LET a == SkipWhiteSpace(s, 1)
        signed == a <= Len(s) /\ s[a] \in {"-", "+"}
        sign == IF signed /\ s[a] = "-" THEN -1 ELSE 1
        b == IF signed THEN a + 1 ELSE a
        c == DigitsEnd(s, b)
        hasPoint == c <= Len(s) /\ s[c] = "."
        d == IF hasPoint THEN DigitsEnd(s, c + 1) ELSE c
        fraction == IF hasPoint THEN d - (c + 1) ELSE 0
    IN  IF (c - b) + fraction = 0 THEN NaN
        ELSE Number(sign * (DigitsValue(s, b, c) * Pow10(fraction)
                            + (IF hasPoint THEN DigitsValue(s, c + 1, d) ELSE 0)),
                    Pow10(fraction))

-----------------------------------------------------------------------------
(* Transcript.parseTranscriptXml (src/models/transcript.ts) *)

\* the five replace calls, one after the other
decodeEntities(text) ==
    LET a == ReplaceAll(RE_Entity(<<"&", "a", "m", "p", ";">>), text, 1, <<"&">>)
        b == ReplaceAll(RE_Entity(<<"&", "l", "t", ";">>), a, 1, <<"<">>)
        c == ReplaceAll(RE_Entity(<<"&", "g", "t", ";">>), b, 1, <<">">>)
        d == ReplaceAll(RE_Entity(<<"&", "q", "u", "o", "t", ";">>), c, 1, <<"\"">>)
    IN  ReplaceAll(RE_Entity(<<"&", "#", "3", "9", ";">>), d, 1, <<"'">>)

\* text.replace(/<[^>]*>/g, '')
stripTags(text) == ReplaceAll(RE_Tag, text, 1, << >>)

\* String.prototype.trim
RECURSIVE trimEnd(_)
trimEnd(s) ==
    IF s # << >> /\ s[Len(s)] \in WhiteSpace THEN trimEnd(SubSeq(s, 1, Len(s) - 1)) ELSE s
trim(s) == trimEnd(SubSeq(s, SkipWhiteSpace(s, 1), Len(s)))

\* the text of a snippet that strips the tags before it decodes
cleanText_StripFirst(text, preserveFormatting) ==
    trim(decodeEntities(IF preserveFormatting THEN text ELSE stripTags(text)))

\* the text of a snippet, from the content of the element
cleanText(text, preserveFormatting) ==
    LET decoded == decodeEntities(text)
    IN  trim(IF preserveFormatting THEN decoded ELSE stripTags(decoded))

\* a time that is taken as it is written in both formats
timeOf_NoConversion(attribute, isNewFormat) == parseFloat(attribute)

\* the time of a snippet, from the value of the attribute
timeOf(attribute, isNewFormat) ==
    IF isNewFormat THEN Divide(parseFloat(attribute), 1000) ELSE parseFloat(attribute)

TranscriptSnippet(text, start, duration) ==
    [text |-> text, start |-> start, duration |-> duration]

\* the body of the loop: the snippets (one or none) of one matched element
snippetsOfMatch(match, isNewFormat, preserveFormatting) ==
    LET startMatch == Search(RE_Attr(IF isNewFormat THEN <<"t">> ELSE <<"s", "t", "a", "r", "t">>), match, 1)
        durMatch == Search(RE_Attr(IF isNewFormat THEN <<"d">> ELSE <<"d", "u", "r">>), match, 1)
        textMatch == Search(RE_Content, match, 1)
    IN  IF startMatch # << >> /\ durMatch # << >> /\ textMatch # << >>
        THEN <<TranscriptSnippet(cleanText(Group(match, textMatch, 2), preserveFormatting),
                                 timeOf(Group(match, startMatch, 2), isNewFormat),
                                 timeOf(Group(match, durMatch, 2), isNewFormat))>>
        ELSE << >>

RECURSIVE snippetsOfMatches(_, _, _)
snippetsOfMatches(matches, isNewFormat, preserveFormatting) ==
    IF matches = << >> THEN << >>
    ELSE snippetsOfMatch(Head(matches), isNewFormat, preserveFormatting)
         \o snippetsOfMatches(Tail(matches), isNewFormat, preserveFormatting)

\* a parser that tries the <text> format first
parseTranscriptXml_TextFirst(xmlData, preserveFormatting) ==
    LET oldMatches == MatchAll(RE_TEXT, xmlData, 1)
        isNewFormat == oldMatches = << >>
        textMatches == IF isNewFormat THEN MatchAll(RE_P, xmlData, 1) ELSE oldMatches
    IN  snippetsOfMatches(textMatches, isNewFormat, preserveFormatting)

\* nothing in the try block throws on a string, so the catch is not reached
parseTranscriptXml(xmlData, preserveFormatting) ==
    LET newMatches == MatchAll(RE_P, xmlData, 1)
        isNewFormat == newMatches # << >>
        textMatches == IF isNewFormat THEN newMatches ELSE MatchAll(RE_TEXT, xmlData, 1)
    IN  snippetsOfMatches(textMatches, isNewFormat, preserveFormatting)


-----------------------------------------------------------------------------
(* Inputs of the parser model: timed-text documents *)

\* the decimal numeral of a natural number
RECURSIVE DecimalOf(_)
DecimalOf(n) ==
    IF n < 10 THEN <<DigitSeq[n + 1]>> ELSE DecimalOf(n \div 10) \o <<DigitSeq[(n % 10) + 1]>>

\* the digits of the thousandths, without the zeros at the end
ThousandthsOf(n) ==
    IF n % 1000 = 0 THEN << >>
    ELSE IF n % 100 = 0 THEN <<DigitSeq[(n \div 100) + 1]>>
    ELSE IF n % 10 = 0 THEN <<DigitSeq[(n \div 100) + 1], DigitSeq[((n \div 10) % 10) + 1]>>
    ELSE <<DigitSeq[(n \div 100) + 1], DigitSeq[((n \div 10) % 10) + 1], DigitSeq[(n % 10) + 1]>>

\* the numeral of ms milliseconds, in milliseconds and in seconds
MillisNumeral(ms) == DecimalOf(ms)
SecondsNumeral(ms) ==
    DecimalOf(ms \div 1000)
    \o (IF ms % 1000 = 0 THEN << >> ELSE <<".">> \o ThousandthsOf(ms % 1000))

\* <p t="1360" d="1680">[...]</p> and <text start="1.36" dur="1.68">[...]</text>
NewElement(t, d, text) ==
    <<"<", "p", " ", "t", "=", "\"">> \o t \o <<"\"", " ", "d", "=", "\"">> \o d \o <<"\"", ">">> \o text \o <<"<", "/", "p", ">">>
OldElement(start, dur, text) ==
    <<"<", "t", "e", "x", "t", " ", "s", "t", "a", "r", "t", "=", "\"">> \o start \o <<"\"", " ", "d", "u", "r", "=", "\"">> \o dur \o <<"\"", ">">> \o text \o <<"<", "/", "t", "e", "x", "t", ">">>

StartMillis == {0, 1360, 61005}
DurMillis == {1680, 2500}

Contents ==
    {<<"H", "i">>, <<"A", " ", "&", "a", "m", "p", ";", " ", "B", " ", "&", "l", "t", ";", "t", "a", "g", "&", "g", "t", ";">>, <<" ", " ", "t", "w", "o", " ", "w", "o", "r", "d", "s", " ", "\n">>, <<"&", "a", "m", "p", ";", "l", "t", ";", "b", "&", "a", "m", "p", ";", "g", "t", ";", "x">>,
     <<"&", "q", "u", "o", "t", ";", "q", "&", "q", "u", "o", "t", ";", " ", "&", "#", "3", "9", ";", "s", "&", "#", "3", "9", ";">>, <<"1", " ", "&", "g", "t", ";", " ", "0", " ", "&", "l", "t", ";", " ", "2">>, << >>}

PlainNewDocuments ==
    {NewElement(MillisNumeral(t), MillisNumeral(d), c) :
        t \in StartMillis, d \in DurMillis, c \in Contents}
PlainOldDocuments ==
    {OldElement(SecondsNumeral(t), SecondsNumeral(d), c) :
        t \in StartMillis, d \in DurMillis, c \in Contents}

FirstNew == NewElement(<<"1", "3", "6", "0">>, <<"1", "6", "8", "0">>, <<"H", "i">>)
SecondNew == NewElement(<<"5", "0", "0">>, <<"2", "0">>, <<"&", "l", "t", ";", "i", "&", "g", "t", ";", "t", "h", "e", "r", "e", "&", "l", "t", ";", "/", "i", "&", "g", "t", ";">>)
FirstOld == OldElement(<<"1", ".", "3", "6">>, <<"1", ".", "6", "8">>, <<"H", "i">>)
SecondOld == OldElement(<<"0", ".", "5">>, <<"0", ".", "0", "2">>, <<"&", "l", "t", ";", "i", "&", "g", "t", ";", "t", "h", "e", "r", "e", "&", "l", "t", ";", "/", "i", "&", "g", "t", ";">>)

OtherDocuments ==
    {<< >>,
     <<"<", "t", "r", "a", "n", "s", "c", "r", "i", "p", "t", ">", "<", "/", "t", "r", "a", "n", "s", "c", "r", "i", "p", "t", ">">>,
     FirstNew \o SecondNew,
     FirstOld \o SecondOld,
     FirstNew \o SecondOld,
     FirstOld \o SecondNew,
     <<"<", "?", "x", "m", "l", " ", "v", "e", "r", "s", "i", "o", "n", "=", "\"", "1", ".", "0", "\"", "?", ">", "<", "t", "i", "m", "e", "d", "t", "e", "x", "t", " ", "f", "o", "r", "m", "a", "t", "=", "\"", "3", "\"", ">", "<", "b", "o", "d", "y", ">">> \o FirstNew \o <<"\n">>
         \o SecondNew \o <<"<", "/", "b", "o", "d", "y", ">", "<", "/", "t", "i", "m", "e", "d", "t", "e", "x", "t", ">">>,
     <<"<", "?", "x", "m", "l", " ", "v", "e", "r", "s", "i", "o", "n", "=", "\"", "1", ".", "0", "\"", "?", ">", "<", "t", "r", "a", "n", "s", "c", "r", "i", "p", "t", ">">> \o FirstOld \o SecondOld \o <<"<", "/", "t", "r", "a", "n", "s", "c", "r", "i", "p", "t", ">">>,
     <<"<", "p", " ", "i", "d", "=", "\"", "7", "\"", " ", "t", "=", "\"", "1", "3", "6", "0", "\"", " ", "d", "=", "\"", "1", "6", "8", "0", "\"", ">", "H", "i", "<", "/", "p", ">">>,
     <<"<", "p", " ", "t", "=", "\"", "1", "3", "6", "0", "\"", " ", "d", "=", "\"", "1", "6", "8", "0", "\"", " ", "w", "=", "\"", "1", "\"", ">", "H", "i", "<", "/", "p", ">">>,
     <<"<", "t", "e", "x", "t", " ", "i", "d", "=", "\"", "7", "\"", " ", "s", "t", "a", "r", "t", "=", "\"", "1", ".", "3", "6", "\"", " ", "d", "u", "r", "=", "\"", "1", ".", "6", "8", "\"", ">", "H", "i", "<", "/", "t", "e", "x", "t", ">">>,
     <<"<", "p", " ", "t", "=", "\"", "0", "\"", " ", "d", "=", "\"", "1", "0", "0", "0", "\"", ">", "<", "s", ">", "H", "i", "<", "/", "s", ">", "<", "/", "p", ">">>,
     <<"<", "p", " ", "t", "=", "\"", "a", "b", "c", "\"", " ", "d", "=", "\"", "\"", ">", "H", "i", "<", "/", "p", ">">>,
     <<"<", "p", " ", "t", "=", "\"", "1", "3", "6", "0", "\"", ">", "H", "i", "<", "/", "p", ">">>,
     <<"<", "t", "e", "x", "t", " ", "s", "t", "a", "r", "t", "=", "\"", " ", "1", ".", "5", "s", "\"", " ", "d", "u", "r", "=", "\"", "-", ".", "2", "5", "\"", ">", "H", "i", "<", "/", "t", "e", "x", "t", ">">>}

\* the elements of a sequence, one after the other
RECURSIVE Concat(_)
Concat(es) == IF es = << >> THEN << >> ELSE Head(es) \o Concat(Tail(es))

\* documents of up to MaxElements elements, of either format in any order
\* and not in the order of their times
MixedDocuments ==
    {Concat(es) : es \in SeqsUpTo({FirstNew, SecondNew, FirstOld, SecondOld}, MaxElements)}

ElementDocuments == PlainNewDocuments \cup PlainOldDocuments \cup OtherDocuments

Documents == ElementDocuments \cup MixedDocuments

-----------------------------------------------------------------------------
(* The parser model: one call of parseTranscriptXml *)

InitParse ==
    /\ CatalogIdle
    /\ IdIdle
    /\ FetchIdle

ParseTranscriptXml ==
    /\ call.op = "none"
    /\ \E xmlData \in Documents, preserveFormatting \in BOOLEAN :
        /\ call' = [op |-> "parseTranscriptXml", xmlData |-> xmlData,
                    preserveFormatting |-> preserveFormatting]
        /\ ret' = Return(parseTranscriptXml(xmlData, preserveFormatting))
    /\ UNCHANGED <<listVideoId, transcripts, receiver, input, idRet, fetchVars>>

NextParse == ParseTranscriptXml

SpecParse == InitParse /\ [][NextParse]_vars


-----------------------------------------------------------------------------
(* Errors raised on the way to a transcript (src/errors/index.ts) *)

YoutubeTranscriptTooManyRequestError ==
    [name |-> "YoutubeTranscriptTooManyRequestError",
     message |-> ErrorPrefix \o <<"YouTube is receiving too many requests from this IP and now requires solving a captcha to continue">>]

YoutubeTranscriptVideoUnavailableError(videoId) ==
    [name |-> "YoutubeTranscriptVideoUnavailableError",
     message |-> ErrorPrefix \o <<"The video is no longer available (">> \o videoId \o <<")">>]

YoutubeTranscriptDisabledError(videoId) ==
    [name |-> "YoutubeTranscriptDisabledError",
     message |-> ErrorPrefix \o <<"Transcript is disabled on this video (">> \o videoId \o <<")">>]

YoutubeTranscriptNotAvailableError(videoId) ==
    [name |-> "YoutubeTranscriptNotAvailableError",
     message |-> ErrorPrefix \o <<"No transcripts are available for this video (">>
                 \o videoId \o <<")">>]

\* the classes that extend YoutubeTranscriptError, and the class itself
YoutubeTranscriptErrorNames ==
    {"YoutubeTranscriptError", "YoutubeTranscriptTooManyRequestError",
     "YoutubeTranscriptVideoUnavailableError", "YoutubeTranscriptDisabledError",
     "YoutubeTranscriptNotAvailableError", "YoutubeTranscriptNotAvailableLanguageError",
     "YoutubeTranscriptTranslationError", "YoutubeTranscriptRequestBlockedError",
     "YoutubeTranscriptIpBlockedError"}

\* error instanceof YoutubeTranscriptError
IsYoutubeTranscriptError(e) == e.name \in YoutubeTranscriptErrorNames

\* what is thrown by something else than this library
TransportError == [name |-> "Error", message |-> <<"fetch failed">>]
JsonSyntaxError == [name |-> "SyntaxError", message |-> <<"Unexpected token">>]
NotAFunctionError == [name |-> "TypeError", message |-> <<"map is not a function">>]

-----------------------------------------------------------------------------
(* Optional values: a property that may be undefined is << >> when it is  *)
(* and <<v>> when it holds v                                               *)

None == << >>
Some(v) == <<v>>

\* !!s for an optional string
TruthyString(o) == o # None /\ o[1] # << >>

-----------------------------------------------------------------------------
(* YoutubeTranscript, the player-endpoint variant (src/youtube-transcript.ts) *)

\* a choice of languages where the legacy field wins over the list
getLanguagesFromConfig_LangFirst(config) ==
    IF config = None THEN << <<"en">> >>
    ELSE IF TruthyString(config[1].lang) THEN <<config[1].lang[1]>>
    ELSE IF config[1].languages # None /\ Len(config[1].languages[1]) > 0
    THEN config[1].languages[1]
    ELSE << <<"en">> >>

getLanguagesFromConfig(config) ==
    IF config = None THEN << <<"en">> >>
    ELSE IF config[1].languages # None /\ Len(config[1].languages[1]) > 0
    THEN config[1].languages[1]
    ELSE IF TruthyString(config[1].lang) THEN <<config[1].lang[1]>>
    ELSE << <<"en">> >>

\* name?.runs?.[0]?.text || name?.simpleText || languageCode
resolveName(name, languageCode) ==
    LET runText == IF name # None /\ name[1].runs # None /\ Len(name[1].runs[1]) > 0
                   THEN name[1].runs[1][1].text ELSE None
        simpleText == IF name # None THEN name[1].simpleText ELSE None
    IN  IF TruthyString(runText) THEN runText[1]
        ELSE IF TruthyString(simpleText) THEN simpleText[1]
        ELSE languageCode

\* translationLanguages.map(lang => ({languageCode, languageName}))
buildLanguages(langs) ==
    [i \in 1..Len(langs) |->
        LangInfo(langs[i].languageCode,
                 resolveName(langs[i].languageName, langs[i].languageCode))]

\* the Transcript made of one caption track
buildTranscript(identifier, track, globalTranslationLanguages) ==
    Transcript(identifier,
               resolveName(track.name, track.languageCode),
               track.languageCode,
               track.kind = Some(<<"asr">>),
               track.isTranslatable = Some(TRUE),
               IF track.translationLanguages # None
               THEN buildLanguages(track.translationLanguages[1])
               ELSE globalTranslationLanguages,
               track.baseUrl)

BotReason == <<"Sign in to confirm you're not a bot">>

\* an extraction that takes a missing playability status for an OK one
extractCaptionsFromPlayerData_MissingStatusIsOk(playerData, videoId) ==
    IF playerData.status \notin {None, Some(<<"OK">>)}
    THEN IF playerData.reason = Some(BotReason)
         THEN Throw(YoutubeTranscriptTooManyRequestError)
         ELSE Throw(YoutubeTranscriptVideoUnavailableError(videoId))
    ELSE IF playerData.captions = None \/ playerData.captions[1].captionTracks = None
    THEN Throw(YoutubeTranscriptDisabledError(videoId))
    ELSE Return(playerData.captions[1])

extractCaptionsFromPlayerData(playerData, videoId) ==
    IF playerData.status # Some(<<"OK">>)
    THEN IF playerData.reason = Some(BotReason)
         THEN Throw(YoutubeTranscriptTooManyRequestError)
         ELSE Throw(YoutubeTranscriptVideoUnavailableError(videoId))
    ELSE IF playerData.captions = None \/ playerData.captions[1].captionTracks = None
    THEN Throw(YoutubeTranscriptDisabledError(videoId))
    ELSE Return(playerData.captions[1])

\* list, from the player response on (steps 3 to 6 inside the try block)
listFromPlayerResponse(resp, identifier) ==
    IF resp.rejected THEN Throw(TransportError)
    ELSE IF ~resp.ok THEN Throw(YoutubeTranscriptNotAvailableError(identifier))
    ELSE IF resp.json = None THEN Throw(JsonSyntaxError)
    ELSE LET got == extractCaptionsFromPlayerData(resp.json[1], identifier)
         IN  IF got.kind = "throw" THEN got
             ELSE LET captions == got.value
                      globalTranslationLanguages ==
                          IF captions.translationLanguages # None
                          THEN buildLanguages(captions.translationLanguages[1])
                          ELSE << >>
                      tracks == captions.captionTracks[1]
                  IN  IF ~captions.tracksAreArray THEN Throw(NotAFunctionError)
                      ELSE Return([videoId |-> identifier,
                                   transcripts |->
                                       [i \in 1..Len(tracks) |->
                                           buildTranscript(identifier, tracks[i],
                                                           globalTranslationLanguages)]])

\* list, from the watch page on (steps 1 and 2 inside the try block): an
\* error, or the API key to ask the player endpoint with
listFromWatchPage(resp, identifier) ==
    IF resp.rejected THEN Throw(TransportError)
    ELSE IF resp.hasCaptcha THEN Throw(YoutubeTranscriptTooManyRequestError)
    ELSE IF ~resp.hasPlayabilityStatus
    THEN Throw(YoutubeTranscriptVideoUnavailableError(identifier))
    ELSE IF ~TruthyString(resp.apiKey)
    THEN Throw(YoutubeTranscriptError(<<"Could not extract YouTube API key">>))
    ELSE Return(resp.apiKey[1])

\* the catch block of list
listCatch(out, identifier) ==
    IF out.kind = "throw" /\ ~IsYoutubeTranscriptError(out.error)
    THEN Throw(YoutubeTranscriptNotAvailableError(identifier))
    ELSE out

\* url.includes('&exp=xpe')
RequiresPoToken(url) == IndexOfAtom(url, "&exp=xpe") # 0

FetchedTranscript(snippets, videoId, language, languageCode, isGenerated) ==
    [snippets |-> snippets, videoId |-> videoId, language |-> language,
     languageCode |-> languageCode, isGenerated |-> isGenerated]

\* a start of Transcript.fetch that does not look at the URL
transcriptFetchStart_NoPoTokenCheck(this, hasHttpClient) ==
    IF ~hasHttpClient
    THEN Throw(YoutubeTranscriptNotAvailableError(
                   <<"HttpClient is required for transcript fetching">>))
    ELSE Return(this.baseUrl)

\* Transcript.fetch up to its await: an error, or the URL to request
transcriptFetchStart(this, hasHttpClient) ==
    IF ~hasHttpClient
    THEN Throw(YoutubeTranscriptNotAvailableError(
                   <<"HttpClient is required for transcript fetching">>))
    ELSE IF RequiresPoToken(this.baseUrl)
    THEN Throw(YoutubeTranscriptNotAvailableError(<<"PoToken required for this transcript">>))
    ELSE Return(this.baseUrl)

\* an end of Transcript.fetch that parses whatever the status is
transcriptFetchEnd_IgnoringStatus(this, resp, preserveFormatting) ==
    IF resp.rejected THEN Throw(TransportError)
    ELSE Return(FetchedTranscript(parseTranscriptXml(resp.body, preserveFormatting),
                                  this.videoId, this.language, this.languageCode,
                                  this.isGenerated))

\* Transcript.fetch from its await on; the rejection of the transport is
\* not caught
transcriptFetchEnd(this, resp, preserveFormatting) ==
    IF resp.rejected THEN Throw(TransportError)
    ELSE IF ~resp.ok THEN Throw(YoutubeTranscriptNotAvailableError(this.videoId))
    ELSE Return(FetchedTranscript(parseTranscriptXml(resp.body, preserveFormatting),
                                  this.videoId, this.language, this.languageCode,
                                  this.isGenerated))

WatchPageRequest(identifier) ==
    [to |-> "watchPage", url |-> <<"https://www.youtube.com/watch?v=">> \o identifier]
PlayerRequest(apiKey) ==
    [to |-> "player",
     url |-> <<"https://www.youtube.com/youtubei/v1/player">> \o <<"?key=">> \o apiKey]
TimedTextRequest(url) == [to |-> "timedText", url |-> url]

-----------------------------------------------------------------------------
(* Inputs of the fetch model *)

FetchVideoIds ==
    {ValidToken, <<"h", "t", "t", "p", "s", ":", "/", "/", "w", "w", "w", ".">> \o ShapeWatch \o ValidToken, <<"a", "b", "c">>}

Config(languages, lang, preserveFormatting) ==
    Some([languages |-> languages, lang |-> lang, preserveFormatting |-> preserveFormatting])

Configs ==
    {None,
     Config(Some(<< <<"de">> >>), None, None),
     Config(Some(<< <<"fr">>, <<"en">> >>), Some(<<"de">>), None),
     Config(Some(<< >>), Some(<<"fr">>), None),
     Config(None, None, Some(TRUE)),
     Config(Some(<< >>), None, None),
     Config(None, Some(<< >>), Some(FALSE))}

WatchPages ==
    {[rejected |-> TRUE]}
    \cup [rejected : {FALSE}, hasCaptcha : BOOLEAN, hasPlayabilityStatus : BOOLEAN,
          apiKey : {None, Some(<<"AIzaSy_key-1">>)}]

SimpleName(text) == Some([simpleText |-> Some(text), runs |-> None])
RunsName(text) == Some([simpleText |-> None, runs |-> Some(<<[text |-> Some(text)]>>)])
BothNames(simple, run) ==
    Some([simpleText |-> Some(simple), runs |-> Some(<<[text |-> Some(run)]>>)])

RawLang(code, name) == [languageCode |-> code, languageName |-> name]

RawLangs ==
    <<RawLang(<<"de">>, SimpleName(<<"German">>)), RawLang(<<"es">>, None),
      RawLang(<<"it">>, BothNames(<<"Italian">>, <<"Italiano">>))>>

RawTrack(code, name, kind, isTranslatable, translationLanguages, baseUrl) ==
    [languageCode |-> code, name |-> name, kind |-> kind,
     isTranslatable |-> isTranslatable, translationLanguages |-> translationLanguages,
     baseUrl |-> baseUrl]

TimedTextUrl(code) == <<"https://www.youtube.com/api/timedtext?v=x">> \o <<"&lang=">> \o code

TrackEn ==
    RawTrack(<<"en">>, SimpleName(<<"English">>), None, Some(TRUE), None,
             TimedTextUrl(<<"en">>))
TrackEnAsr ==
    RawTrack(<<"en">>, RunsName(<<"English (auto-generated)">>), Some(<<"asr">>), None,
             Some(RawLangs), TimedTextUrl(<<"en">>) \o <<"&kind=asr">>)
TrackFr ==
    RawTrack(<<"fr">>, BothNames(<<"French">>, <<"Francais">>), Some(<<"manual">>),
             Some(FALSE), None, TimedTextUrl(<<"fr">>))
TrackEnPoToken ==
    RawTrack(<<"en">>, None, None, None, None, TimedTextUrl(<<"en">>) \o <<"&exp=xpe">>)

TrackLists ==
    {<< >>, <<TrackEn>>, <<TrackEnAsr, TrackEn>>, <<TrackEn, TrackEnAsr, TrackFr>>,
     <<TrackEnPoToken>>}

Renderers ==
    [captionTracks : {Some(t) : t \in TrackLists}, tracksAreArray : {TRUE},
     translationLanguages : {None, Some(RawLangs)}]
    \cup {[captionTracks |-> None, tracksAreArray |-> FALSE, translationLanguages |-> None],
          [captionTracks |-> Some(<< >>), tracksAreArray |-> FALSE,
           translationLanguages |-> None]}

PlayerDatas ==
    [status : {Some(<<"OK">>)}, reason : {None}, captions : {None} \cup {Some(r) : r \in Renderers}]
    \cup [status : {None, Some(<<"ERROR">>), Some(<<"LOGIN_REQUIRED">>)},
          reason : {None, Some(BotReason), Some(<<"This video is unavailable">>),
                    Some(<<"This video may be inappropriate for some users.">>),
                    Some(<<"Something else">>)},
          captions : {None}]
    \cup {[status |-> Some(<<"ERROR">>), reason |-> None,
           captions |-> Some([captionTracks |-> Some(<<TrackEn>>), tracksAreArray |-> TRUE,
                              translationLanguages |-> None])],
          [status |-> None, reason |-> Some(BotReason),
           captions |-> Some([captionTracks |-> Some(<<TrackEn>>), tracksAreArray |-> TRUE,
                              translationLanguages |-> None])]}

PlayerResponses ==
    {[rejected |-> TRUE], [rejected |-> FALSE, ok |-> FALSE, json |-> None],
     [rejected |-> FALSE, ok |-> TRUE, json |-> None]}
    \cup [rejected : {FALSE}, ok : {TRUE}, json : {Some(d) : d \in PlayerDatas}]

\* handles fetch is called on directly: those a catalog holds, one of them
\* translated, one whose URL asks for a PoToken, that one translated, and
\* one made by the caller without a transport
PoTokenHandle ==
    Transcript(ValidToken, <<"English">>, <<"en">>, FALSE, TRUE, TransListShort,
               TimedTextUrl(<<"en">>) \o <<"&exp=xpe">> \o <<"&fmt=srv3">>)
PlainHandle ==
    Transcript(ValidToken, <<"English">>, <<"en">>, FALSE, TRUE, TransListShort,
               TimedTextUrl(<<"en">>))

DirectHandles ==
    [transcript : {PlainHandle, PoTokenHandle,
                   translate(PlainHandle, <<"de">>).out.value,
                   translate(PoTokenHandle, <<"de">>).out.value},
     hasHttpClient : BOOLEAN]

TimedTextDocuments == {<< >>, FirstNew \o SecondNew, FirstOld \o SecondOld}

TimedTextResponses ==
    {[rejected |-> TRUE]}
    \cup [rejected : {FALSE}, ok : BOOLEAN, body : TimedTextDocuments]

-----------------------------------------------------------------------------
(* The fetch model: one call of YoutubeTranscript.fetch, or of fetch on a   *)
(* handle, from the call to its outcome.  Each action runs the code from   *)
(* one await to the next.                                                  *)

InitFetch ==
    /\ pc = "idle"
    /\ frame = NoValue
    /\ requests = << >>
    /\ CatalogIdle
    /\ IdIdle

\* fetch(videoId, config) up to the first await of list
FetchCall ==
    /\ pc = "idle"
    /\ \E videoId \in FetchVideoIds, config \in Configs :
        LET id == extractVideoId(videoId)
        IN  /\ call' = [op |-> "fetch", videoId |-> videoId, config |-> config]
            /\ input' = videoId
            /\ idRet' = id
            /\ IF id.kind = "throw"
               THEN /\ ret' = id
                    /\ pc' = "done"
                    /\ frame' = [step |-> "extractVideoId"]
                    /\ requests' = requests
               ELSE /\ ret' = NoOutcome
                    /\ pc' = "watchPage"
                    /\ frame' = [step |-> "list",
                                 identifier |-> extractVideoId(id.value).value,
                                 languages |-> getLanguagesFromConfig(config),
                                 preserveFormatting |->
                                     IF config = None THEN None
                                     ELSE config[1].preserveFormatting,
                                 page |-> None,
                                 player |-> None]
                    /\ requests' = Append(requests,
                                          WatchPageRequest(extractVideoId(id.value).value))
            /\ UNCHANGED <<listVideoId, transcripts, receiver>>

\* a list that sends the player request whatever the watch page holds
WatchPageResponse_Eager ==
    /\ pc = "watchPage"
    /\ \E resp \in WatchPages :
        LET out == listCatch(listFromWatchPage(resp, frame.identifier), frame.identifier)
        IN  /\ IF out.kind = "throw"
               THEN /\ ret' = out
                    /\ pc' = "done"
                    /\ requests' = Append(requests, PlayerRequest(<< >>))
               ELSE /\ ret' = ret
                    /\ pc' = "player"
                    /\ requests' = Append(requests, PlayerRequest(out.value))
            /\ frame' = [frame EXCEPT !.page = Some(resp)]
    /\ UNCHANGED <<listVideoId, transcripts, call, receiver, input, idRet>>

\* list resumes with the watch page
WatchPageResponse ==
    /\ pc = "watchPage"
    /\ \E resp \in WatchPages :
        LET out == listCatch(listFromWatchPage(resp, frame.identifier), frame.identifier)
        IN  /\ IF out.kind = "throw"
               THEN /\ ret' = out
                    /\ pc' = "done"
                    /\ requests' = requests
               ELSE /\ ret' = ret
                    /\ pc' = "player"
                    /\ requests' = Append(requests, PlayerRequest(out.value))
            /\ frame' = [frame EXCEPT !.page = Some(resp)]
    /\ UNCHANGED <<listVideoId, transcripts, call, receiver, input, idRet>>

\* list resumes with the player response and returns; fetch selects the
\* transcript and Transcript.fetch runs up to its request
PlayerResponse ==
    /\ pc = "player"
    /\ \E resp \in PlayerResponses :
        LET out == listCatch(listFromPlayerResponse(resp, frame.identifier),
                             frame.identifier)
        IN  IF out.kind = "throw"
            THEN /\ ret' = out
                 /\ pc' = "done"
                 /\ frame' = [frame EXCEPT !.player = Some(resp)]
                 /\ UNCHANGED <<listVideoId, transcripts, requests>>
            ELSE LET found == findTranscript(out.value.transcripts, out.value.videoId,
                                             frame.languages)
                 IN  /\ listVideoId' = out.value.videoId
                     /\ transcripts' = out.value.transcripts
                     /\ IF found.kind = "throw"
                        THEN /\ ret' = found
                             /\ pc' = "done"
                             /\ frame' = [frame EXCEPT !.step = "findTranscript",
                                                       !.player = Some(resp)]
                             /\ requests' = requests
                        ELSE LET started == transcriptFetchStart(found.value, TRUE)
                                 selected == [step |-> "transcript.fetch",
                                              identifier |-> frame.identifier,
                                              languages |-> frame.languages,
                                              preserveFormatting |->
                                                  frame.preserveFormatting,
                                              page |-> frame.page,
                                              player |-> Some(resp),
                                              transcript |-> found.value,
                                              hasHttpClient |-> TRUE,
                                              bodyRead |-> FALSE,
                                              response |-> None]
                             IN  /\ frame' = selected
                                 /\ IF started.kind = "throw"
                                    THEN /\ ret' = started
                                         /\ pc' = "done"
                                         /\ requests' = requests
                                    ELSE /\ ret' = ret
                                         /\ pc' = "timedText"
                                         /\ requests' =
                                                Append(requests,
                                                       TimedTextRequest(started.value))
    /\ UNCHANGED <<call, receiver, input, idRet>>

\* fetch(preserveFormatting) called on a handle, up to its await
TranscriptFetchCall ==
    /\ pc = "idle"
    /\ \E h \in DirectHandles, preserveFormatting \in {None, Some(TRUE), Some(FALSE)} :
        LET started == transcriptFetchStart(h.transcript, h.hasHttpClient)
        IN  /\ call' = [op |-> "transcript.fetch", this |-> h.transcript,
                        preserveFormatting |-> preserveFormatting]
            /\ frame' = [step |-> "transcript.fetch",
                         preserveFormatting |-> preserveFormatting,
                         transcript |-> h.transcript,
                         hasHttpClient |-> h.hasHttpClient,
                         bodyRead |-> FALSE,
                         response |-> None]
            /\ IF started.kind = "throw"
               THEN /\ ret' = started
                    /\ pc' = "done"
                    /\ requests' = requests
               ELSE /\ ret' = NoOutcome
                    /\ pc' = "timedText"
                    /\ requests' = Append(requests, TimedTextRequest(started.value))
    /\ UNCHANGED <<listVideoId, transcripts, receiver, input, idRet>>

\* Transcript.fetch resumes with the timed-text response
TimedTextResponse ==
    /\ pc = "timedText"
    /\ \E resp \in TimedTextResponses :
        /\ ret' = transcriptFetchEnd(frame.transcript, resp,
                                     frame.preserveFormatting = Some(TRUE))
        /\ frame' = [frame EXCEPT !.bodyRead = ~resp.rejected /\ resp.ok,
                                  !.response = Some(IF resp.rejected THEN "rejected"
                                                    ELSE IF resp.ok THEN "ok"
                                                    ELSE "not ok")]
    /\ pc' = "done"
    /\ UNCHANGED <<listVideoId, transcripts, call, receiver, input, idRet, requests>>

NextFetch ==
    \/ FetchCall
    \/ WatchPageResponse
    \/ PlayerResponse
    \/ TranscriptFetchCall
    \/ TimedTextResponse

SpecFetch == InitFetch /\ [][NextFetch]_vars

-----------------------------------------------------------------------------
(* The watch page as the page-scrape code reads it.  The body is a         *)
(* sequence of fragments; the markers and the JSON texts are fragments of  *)
(* their own (src/utils/helpers.ts, src/index.ts).                         *)

CaptchaMarker == "class=\"g-recaptcha\""
PlayabilityMarker == "\"playabilityStatus\":"
CaptionsMarker == "\"captions\":"
VideoDetailsMarker == ",\"videoDetails"

hasCaptchaChallenge(html) == IndexOfAtom(html, CaptchaMarker) # 0
isVideoAvailable(html) == IndexOfAtom(html, PlayabilityMarker) # 0

\* s.split(a)[0] and what follows the first a (<< >> when a is absent)
BeforeFirst(s, a) ==
    IF IndexOfAtom(s, a) = 0 THEN s ELSE SubSeq(s, 1, IndexOfAtom(s, a) - 1)
AfterFirst(s, a) ==
    IF IndexOfAtom(s, a) = 0 THEN << >> ELSE SubSeq(s, IndexOfAtom(s, a) + 1, Len(s))

\* s.split(a).length
SplitLength(s, a) == Cardinality({i \in 1..Len(s) : s[i] = a}) + 1

\* s.split(a)[1], for s that holds a
SecondPart(s, a) == BeforeFirst(AfterFirst(s, a), a)

\* s.replace('\n', ''): the first line break goes
RemoveFirstLineBreak(s) == BeforeFirst(s, "\n") \o AfterFirst(s, "\n")

\* the JSON texts of the model and, for each, the value of
\* parsed?.playerCaptionsTracklistRenderer: None when the parsed value is
\* null or has no such key
ScrapeRenderer(captionTracks, tracksAreArray) ==
    [captionTracks |-> captionTracks, tracksAreArray |-> tracksAreArray,
     translationLanguages |-> None]

TrackUnnamed ==
    RawTrack(<<"en">>, None, None, None, None, TimedTextUrl(<<"en">>))

JsonTexts ==
    {[text |-> "null", renderer |-> None],
     [text |-> "{}", renderer |-> None],
     [text |-> "{\"playerCaptionsTracklistRenderer\":{}}",
      renderer |-> Some(ScrapeRenderer(None, FALSE))],
     [text |-> "{\"playerCaptionsTracklistRenderer\":{\"captionTracks\":null}}",
      renderer |-> Some(ScrapeRenderer(Some(<< >>), FALSE))],
     [text |-> "{\"playerCaptionsTracklistRenderer\":{\"captionTracks\":[]}}",
      renderer |-> Some(ScrapeRenderer(Some(<< >>), TRUE))],
     [text |-> "{\"playerCaptionsTracklistRenderer\":{\"captionTracks\":[en]}}",
      renderer |-> Some(ScrapeRenderer(Some(<<TrackEn>>), TRUE))],
     [text |-> "{\"playerCaptionsTracklistRenderer\":{\"captionTracks\":[fr,en]}}",
      renderer |-> Some(ScrapeRenderer(Some(<<TrackFr, TrackEn>>), TRUE))],
     [text |-> "{\"playerCaptionsTracklistRenderer\":{\"captionTracks\":[en-asr]}}",
      renderer |-> Some(ScrapeRenderer(Some(<<TrackEnAsr>>), TRUE))],
     [text |-> "{\"playerCaptionsTracklistRenderer\":{\"captionTracks\":[unnamed]}}",
      renderer |-> Some(ScrapeRenderer(Some(<<TrackUnnamed>>), TRUE))]}

\* JSON.parse, white space around the text allowed: the renderer of the
\* parsed value, or a SyntaxError for what is not one JSON text
JSONparse(text) ==
    LET inner == {k \in 1..Len(text) : text[k] # "\n"}
    IN  IF Cardinality(inner) = 1
           /\ \E j \in JsonTexts : j.text = text[CHOOSE k \in inner : TRUE]
        THEN Return((CHOOSE j \in JsonTexts :
                         j.text = text[CHOOSE k \in inner : TRUE]).renderer)
        ELSE Throw(JsonSyntaxError)

\* a try block that parses all that follows the captions marker
captionsOfSplit_WholeRest(html) ==
    LET parsed == JSONparse(RemoveFirstLineBreak(SecondPart(html, CaptionsMarker)))
    IN  IF parsed.kind = "throw" THEN None ELSE parsed.value

\* the try block shared by Helpers.parseCaptionsFromHtml and the legacy
\* fetchTranscript: the renderer, None standing for undefined
captionsOfSplit(html) ==
    LET captionsJson == RemoveFirstLineBreak(
                            BeforeFirst(SecondPart(html, CaptionsMarker), VideoDetailsMarker))
        parsed == JSONparse(captionsJson)
    IN  IF parsed.kind = "throw" THEN None ELSE parsed.value

parseCaptionsFromHtml(html) ==
    IF SplitLength(html, CaptionsMarker) <= 1 THEN None
    ELSE captionsOfSplit(html)

\* reading a property of undefined
UndefinedPropertyError ==
    [name |-> "TypeError", message |-> <<"Cannot read properties of undefined">>]

\* the value undefined where a string is expected, kept apart from every
\* string of the model
Undefined == <<"undefined">>
OrUndefined(o) == IF o = None THEN Undefined ELSE o[1]

\* the callback of captionTracks.map in the page-scrape list
scrapeTranscript(identifier, track) ==
    IF track.name = None THEN Throw(UndefinedPropertyError)
    ELSE IF track.translationLanguages # None
            /\ \E i \in 1..Len(track.translationLanguages[1]) :
                   track.translationLanguages[1][i].languageName = None
    THEN Throw(UndefinedPropertyError)
    ELSE Return(Transcript(
             identifier,
             OrUndefined(track.name[1].simpleText),
             track.languageCode,
             track.kind = Some(<<"asr">>),
             track.isTranslatable = Some(TRUE),
             IF track.translationLanguages = None THEN << >>
             ELSE [i \in 1..Len(track.translationLanguages[1]) |->
                      LangInfo(track.translationLanguages[1][i].languageCode,
                               OrUndefined(track.translationLanguages[1][i]
                                               .languageName[1].simpleText))],
             track.baseUrl))

\* the page-scrape list, from the watch page on; nothing is caught
scrapeList(resp, identifier) ==
    IF resp.rejected THEN Throw(TransportError)
    ELSE IF hasCaptchaChallenge(resp.body) THEN Throw(YoutubeTranscriptTooManyRequestError)
    ELSE IF ~isVideoAvailable(resp.body)
    THEN Throw(YoutubeTranscriptVideoUnavailableError(identifier))
    ELSE LET captions == parseCaptionsFromHtml(resp.body)
         IN  IF captions = None THEN Throw(YoutubeTranscriptDisabledError(identifier))
             ELSE IF captions[1].captionTracks = None
             THEN Throw(YoutubeTranscriptNotAvailableError(identifier))
             ELSE IF ~captions[1].tracksAreArray THEN Throw(NotAFunctionError)
             ELSE LET tracks == captions[1].captionTracks[1]
                      built == [i \in 1..Len(tracks) |->
                                   scrapeTranscript(identifier, tracks[i])]
                  IN  IF \E i \in 1..Len(tracks) : built[i].kind = "throw"
                      THEN Throw(UndefinedPropertyError)
                      ELSE Return([videoId |-> identifier,
                                   transcripts |->
                                       [i \in 1..Len(tracks) |-> built[i].value]])

-----------------------------------------------------------------------------
(* The legacy static fetchTranscript (src/index.ts) *)

\* the error classes of src/index.ts carry the same messages and leave
\* Error's name; the class is kept beside it
LegacyError(e) == [name |-> "Error", class |-> e.name, message |-> e.message]

\* the class of an error of either module
ClassOf(e) == IF "class" \in DOMAIN e THEN e.class ELSE e.name

LegacyNotAvailableLanguageError(lang, availableLangs, videoId) ==
    [name |-> "Error", class |-> "YoutubeTranscriptNotAvailableLanguageError",
     message |-> ErrorPrefix \o <<"No transcripts are available in ">> \o lang
                 \o <<" this video (">> \o videoId
                 \o <<"). Available languages: ">> \o Join(availableLangs, <<", ">>)]

retrieveVideoId(videoId) ==
    IF Len(videoId) = IdLen THEN Return(videoId)
    ELSE LET matchId == RE_YOUTUBE(videoId)
         IN  IF matchId.matched THEN Return(matchId.group)
             ELSE Throw(LegacyError(YoutubeTranscriptError(
                      <<"Impossible to retrieve Youtube video ID.">>)))

\* /<text start="([^"]*)" dur="([^"]*)">([^<]*)<\/text>/g, the groups being
\* the items 2, 4 and 6
RE_XML_TRANSCRIPT ==
    <<Lit(<<"<", "t", "e", "x", "t", " ", "s", "t", "a", "r", "t", "=", "\"">>), Star("\""), Lit(<<"\"", " ", "d", "u", "r", "=", "\"">>), Star("\""), Lit(<<"\"", ">">>),
      Star("<"), Lit(<<"<", "/", "t", "e", "x", "t", ">">>)>>

\* String.prototype.matchAll: the matches in order, each as its positions
RECURSIVE MatchAllGroups(_, _, _)
MatchAllGroups(p, s, from) ==
    LET m == Search(p, s, from)
    IN  IF m = << >> THEN << >> ELSE <<m>> \o MatchAllGroups(p, s, MatchEnd(m))

\* fetchTranscript from the watch page on, up to the timed-text request:
\* an error, or the track to request; lang is config?.lang
legacyFromWatchPage(resp, videoId, lang) ==
    IF resp.rejected THEN Throw(TransportError)
    ELSE IF SplitLength(resp.body, CaptionsMarker) <= 1
    THEN IF hasCaptchaChallenge(resp.body)
         THEN Throw(LegacyError(YoutubeTranscriptTooManyRequestError))
         ELSE IF ~isVideoAvailable(resp.body)
         THEN Throw(LegacyError(YoutubeTranscriptVideoUnavailableError(videoId)))
         ELSE Throw(LegacyError(YoutubeTranscriptDisabledError(videoId)))
    ELSE LET captions == captionsOfSplit(resp.body)
         IN  IF captions = None
             THEN Throw(LegacyError(YoutubeTranscriptDisabledError(videoId)))
             ELSE IF captions[1].captionTracks = None
             THEN Throw(LegacyError(YoutubeTranscriptNotAvailableError(videoId)))
             ELSE IF ~captions[1].tracksAreArray THEN Throw(UndefinedPropertyError)
             ELSE LET tracks == captions[1].captionTracks[1]
                      at == IndexOfCode(tracks, IF TruthyString(lang) THEN lang[1] ELSE << >>)
                  IN  IF TruthyString(lang) /\ at = 0
                      THEN Throw(LegacyNotAvailableLanguageError(lang[1], CodesOf(tracks),
                                                                 videoId))
                      ELSE IF ~TruthyString(lang) /\ tracks = << >>
                      THEN Throw(UndefinedPropertyError)
                      ELSE Return([track |-> IF TruthyString(lang) THEN tracks[at]
                                             ELSE tracks[1],
                                   first |-> tracks[1]])

TranscriptResponse(text, duration, offset, lang) ==
    [text |-> text, duration |-> duration, offset |-> offset, lang |-> lang]

\* fetchTranscript from the timed-text response on; lang is config?.lang and
\* first the first caption track
legacyFromTimedText(resp, videoId, lang, first) ==
    IF resp.rejected THEN Throw(TransportError)
    ELSE IF ~resp.ok THEN Throw(LegacyError(YoutubeTranscriptNotAvailableError(videoId)))
    ELSE LET results == MatchAllGroups(RE_XML_TRANSCRIPT, resp.body, 1)
         IN  Return([k \in 1..Len(results) |->
                        TranscriptResponse(Group(resp.body, results[k], 6),
                                           parseFloat(Group(resp.body, results[k], 4)),
                                           parseFloat(Group(resp.body, results[k], 2)),
                                           IF lang # None THEN lang[1]
                                           ELSE first.languageCode)])

-----------------------------------------------------------------------------
(* Inputs of the page-scrape model: watch pages *)

\* what stands in the body for the captions: nothing, or the marker and
\* what follows it
CaptionsParts ==
    {<< >>, <<CaptionsMarker>>,
     <<CaptionsMarker, "{malformed-json}", VideoDetailsMarker, "\":{}">>,
     <<CaptionsMarker, "{\"playerCaptionsTracklistRenderer\":{\"captionTracks\":[en]}}">>,
     <<CaptionsMarker, "\n", "{\"playerCaptionsTracklistRenderer\":{\"captionTracks\":[en]}}",
       "\n", VideoDetailsMarker>>,
     <<CaptionsMarker, "{}", CaptionsMarker,
       "{\"playerCaptionsTracklistRenderer\":{\"captionTracks\":[en]}}", VideoDetailsMarker>>,
     <<CaptionsMarker, "{\"playerCaptionsTracklistRenderer\":{\"captionTracks\":[en]}}",
       "{}", VideoDetailsMarker>>}
    \cup {<<CaptionsMarker, j.text, VideoDetailsMarker, "\":{}">> : j \in JsonTexts}

ScrapeBodies ==
    {<<"<html>">> \o captcha \o playability \o part \o <<"</html>">> :
        captcha \in {<< >>, <<CaptchaMarker>>},
        playability \in {<< >>, <<PlayabilityMarker, "{\"status\":\"OK\"}">>},
        part \in CaptionsParts}

ScrapePages ==
    {[rejected |-> TRUE]} \cup [rejected : {FALSE}, body : ScrapeBodies]

LegacyConfigs ==
    {None, Config(None, Some(<<"en">>), None), Config(None, Some(<<"de">>), None),
     Config(None, Some(<< >>), None)}

LegacyTimedTextResponses ==
    {[rejected |-> TRUE]}
    \cup [rejected : {FALSE}, ok : BOOLEAN,
          body : {FirstOld \o SecondOld, <<"<", "t", "e", "x", "t", " ", "i", "d", "=", "\"", "7", "\"", " ", "s", "t", "a", "r", "t", "=", "\"", "1", ".", "3", "6", "\"", " ", "d", "u", "r", "=", "\"", "1", ".", "6", "8", "\"", ">", "H", "i", "<", "/", "t", "e", "x", "t", ">">>}]

-----------------------------------------------------------------------------
(* The page-scrape model: one call of the page-scrape list or of the       *)
(* legacy fetchTranscript, from the call to its outcome                    *)

InitScrape ==
    /\ pc = "idle"
    /\ frame = NoValue
    /\ requests = << >>
    /\ CatalogIdle
    /\ IdIdle

\* list(videoId), page-scrape, up to its await
ScrapeListCall ==
    /\ pc = "idle"
    /\ \E videoId \in FetchVideoIds :
        LET id == extractVideoId(videoId)
        IN  /\ call' = [op |-> "list", videoId |-> videoId]
            /\ input' = videoId
            /\ idRet' = id
            /\ IF id.kind = "throw"
               THEN /\ ret' = id
                    /\ pc' = "done"
                    /\ frame' = [step |-> "extractVideoId"]
                    /\ requests' = requests
               ELSE /\ ret' = NoOutcome
                    /\ pc' = "scrapePage"
                    /\ frame' = [step |-> "list", identifier |-> id.value]
                    /\ requests' = Append(requests, WatchPageRequest(id.value))
    /\ UNCHANGED <<listVideoId, transcripts, receiver>>

\* list resumes with the watch page
ScrapeListResponse ==
    /\ pc = "scrapePage"
    /\ \E resp \in ScrapePages :
        LET out == scrapeList(resp, frame.identifier)
        IN  /\ frame' = [step |-> "list", identifier |-> frame.identifier, page |-> resp]
            /\ IF out.kind = "throw"
               THEN /\ ret' = out
                    /\ UNCHANGED <<listVideoId, transcripts>>
               ELSE /\ ret' = Return(out.value)
                    /\ listVideoId' = out.value.videoId
                    /\ transcripts' = out.value.transcripts
    /\ pc' = "done"
    /\ UNCHANGED <<call, receiver, input, idRet, requests>>

\* YoutubeTranscript.fetchTranscript(videoId, config), legacy, up to its
\* first await
LegacyFetchCall ==
    /\ pc = "idle"
    /\ \E videoId \in FetchVideoIds, config \in LegacyConfigs :
        LET id == retrieveVideoId(videoId)
        IN  /\ call' = [op |-> "fetchTranscript", videoId |-> videoId, config |-> config]
            /\ input' = videoId
            /\ idRet' = id
            /\ IF id.kind = "throw"
               THEN /\ ret' = id
                    /\ pc' = "done"
                    /\ frame' = [step |-> "retrieveVideoId"]
                    /\ requests' = requests
               ELSE /\ ret' = NoOutcome
                    /\ pc' = "legacyPage"
                    /\ frame' = [step |-> "fetchTranscript", identifier |-> id.value,
                                 videoId |-> videoId,
                                 lang |-> IF config = None THEN None ELSE config[1].lang]
                    /\ requests' = Append(requests, WatchPageRequest(id.value))
    /\ UNCHANGED <<listVideoId, transcripts, receiver>>

\* fetchTranscript resumes with the watch page
LegacyPageResponse ==
    /\ pc = "legacyPage"
    /\ \E resp \in ScrapePages :
        LET out == legacyFromWatchPage(resp, frame.videoId, frame.lang)
        IN  IF out.kind = "throw"
            THEN /\ ret' = out
                 /\ pc' = "done"
                 /\ frame' = [step |-> "fetchTranscript", identifier |-> frame.identifier,
                              videoId |-> frame.videoId, lang |-> frame.lang,
                              page |-> resp]
                 /\ requests' = requests
            ELSE /\ ret' = ret
                 /\ pc' = "legacyTimedText"
                 /\ frame' = [step |-> "fetchTranscript", identifier |-> frame.identifier,
                              videoId |-> frame.videoId, lang |-> frame.lang,
                              page |-> resp, first |-> out.value.first]
                 /\ requests' = Append(requests, TimedTextRequest(out.value.track.baseUrl))
    /\ UNCHANGED <<listVideoId, transcripts, call, receiver, input, idRet>>

\* fetchTranscript resumes with the timed-text response
LegacyTimedTextResponse ==
    /\ pc = "legacyTimedText"
    /\ \E resp \in LegacyTimedTextResponses :
        ret' = legacyFromTimedText(resp, frame.videoId, frame.lang, frame.first)
    /\ pc' = "done"
    /\ UNCHANGED <<listVideoId, transcripts, call, receiver, input, idRet, frame, requests>>

NextScrape ==
    \/ ScrapeListCall
    \/ ScrapeListResponse
    \/ LegacyFetchCall
    \/ LegacyPageResponse
    \/ LegacyTimedTextResponse

SpecScrape == InitScrape /\ [][NextScrape]_vars

-----------------------------------------------------------------------------
(* The formatters (src/formatters): JSONFormatter, SRTFormatter and        *)
(* TextFormatter.  A number is the exact value of the double; the numerals *)
(* of the model are those whose sums and products by 1000 are the same to  *)
(* the millisecond in doubles and in exact arithmetic.                     *)

\* x + y
Add(x, y) ==
    IF x.nan \/ y.nan THEN NaN ELSE Number(x.num * y.den + y.num * x.den, x.den * y.den)

\* String.prototype.padStart(n, c)
RECURSIVE padStart(_, _, _)
padStart(s, n, c) == IF Len(s) >= n THEN s ELSE padStart(<<c>> \o s, n, c)

\* the digits of the fraction num / den < 1, den a power of ten times a
\* divisor of it, up to the last digit that is not zero
RECURSIVE FractionDigits(_, _)
FractionDigits(num, den) ==
    IF num = 0 THEN << >>
    ELSE <<DigitSeq[((num * 10) \div den) + 1]>> \o FractionDigits((num * 10) % den, den)

\* Number.prototype.toString for the numbers of the model, which have a
\* short decimal numeral: no exponent is needed
NumberToString(x) ==
    IF x.nan THEN <<"N", "a", "N">>
    ELSE LET a == Abs(x.num)
         IN  (IF x.num < 0 THEN <<"-">> ELSE << >>)
             \o DecimalOf(a \div x.den)
             \o (IF a % x.den = 0 THEN << >>
                 ELSE <<".">> \o FractionDigits(a % x.den, x.den))

\* the time value of new Date(seconds * 1000): the product without its
\* fraction, towards zero
TimeValue(seconds) ==
    LET a == Abs(seconds.num)
        whole == (a \div seconds.den) * 1000 + ((a % seconds.den) * 1000) \div seconds.den
    IN  IF seconds.num >= 0 THEN whole ELSE -whole

\* SRTFormatter.formatTime: the UTC fields of the date; an invalid date has
\* NaN in every field
formatTime(seconds) ==
    IF seconds.nan
    THEN <<"N", "a", "N", ":", "N", "a", "N", ":", "N", "a", "N", ",", "N", "a", "N">>
    ELSE LET tv == TimeValue(seconds)
             hours == (tv \div 3600000) % 24
             minutes == (tv \div 60000) % 60
             secs == (tv \div 1000) % 60
             ms == tv % 1000
         IN  padStart(DecimalOf(hours), 2, "0") \o <<":">>
             \o padStart(DecimalOf(minutes), 2, "0") \o <<":">>
             \o padStart(DecimalOf(secs), 2, "0") \o <<",">>
             \o padStart(DecimalOf(ms), 3, "0")

Arrow == <<" ", "-", "-", ">", " ">>

\* the callback of snippets.map in SRTFormatter.formatTranscript
srtBlock(snippet, index) ==
    DecimalOf(index + 1) \o <<"\n">>
    \o formatTime(snippet.start) \o Arrow \o formatTime(Add(snippet.start, snippet.duration))
    \o <<"\n">> \o snippet.text \o <<"\n">>

\* SRTFormatter.formatTranscript
srtFormatTranscript(transcript) ==
    Join([i \in 1..Len(transcript.snippets) |-> srtBlock(transcript.snippets[i], i - 1)],
         <<"\n">>)

\* TextFormatter.formatTranscript
textFormatTranscript(transcript) ==
    Join([i \in 1..Len(transcript.snippets) |-> transcript.snippets[i].text], <<" ">>)

\* FetchedTranscript.toRawData
toRawData(this) ==
    [i \in 1..Len(this.snippets) |->
        [text |-> this.snippets[i].text,
         duration |-> this.snippets[i].duration,
         offset |-> this.snippets[i].start,
         lang |-> this.languageCode,
         isGenerated |-> this.isGenerated]]

\* JSON.stringify of a string: quotes, and escapes for the quote, the
\* backslash and the control characters of the model
RECURSIVE QuoteJSONString(_)
QuoteJSONString(s) ==
    IF s = << >> THEN << >>
    ELSE (IF Head(s) = "\"" THEN <<"\\", "\"">>
          ELSE IF Head(s) = "\\" THEN <<"\\", "\\">>
          ELSE IF Head(s) = "\n" THEN <<"\\", "n">>
          ELSE IF Head(s) = "\t" THEN <<"\\", "t">>
          ELSE <<Head(s)>>)
         \o QuoteJSONString(Tail(s))

stringifyString(s) == <<"\"">> \o QuoteJSONString(s) \o <<"\"">>

\* JSON.stringify of a number: null for one that is not finite
stringifyNumber(x) == IF x.nan THEN <<"n", "u", "l", "l">> ELSE NumberToString(x)

stringifyBoolean(b) == IF b THEN <<"t", "r", "u", "e">> ELSE <<"f", "a", "l", "s", "e">>

Member(key, text) == stringifyString(key) \o <<":">> \o text

\* JSON.stringify of one element of toRawData(): the properties in the
\* order of their creation
stringifyRaw(raw) ==
    <<"{">>
    \o Join(<<Member(<<"t", "e", "x", "t">>, stringifyString(raw.text)),
              Member(<<"d", "u", "r", "a", "t", "i", "o", "n">>, stringifyNumber(raw.duration)),
              Member(<<"o", "f", "f", "s", "e", "t">>, stringifyNumber(raw.offset)),
              Member(<<"l", "a", "n", "g">>, stringifyString(raw.lang)),
              Member(<<"i", "s", "G", "e", "n", "e", "r", "a", "t", "e", "d">>,
                     stringifyBoolean(raw.isGenerated))>>,
            <<",">>)
    \o <<"}">>

\* JSONFormatter.formatTranscript without the indent option
jsonFormatTranscript(transcript) ==
    LET raw == toRawData(transcript)
    IN  <<"[">> \o Join([i \in 1..Len(raw) |-> stringifyRaw(raw[i])], <<",">>) \o <<"]">>

-----------------------------------------------------------------------------
(* Inputs of the formatter model: transcripts *)

Snippet(text, start, duration) == TranscriptSnippet(text, start, duration)

\* the transcript of test/unit/formatters-test.mjs
MockTranscript ==
    FetchedTranscript(
        <<Snippet(<<"F", "i", "r", "s", "t", " ", "s", "n", "i", "p", "p", "e", "t">>,
                  Number(0, 1), Number(5, 2)),
          Snippet(<<"S", "e", "c", "o", "n", "d", " ", "s", "n", "i", "p", "p", "e", "t">>,
                  Number(5, 2), Number(3, 1)),
          Snippet(<<"T", "h", "i", "r", "d", " ", "s", "n", "i", "p", "p", "e", "t">>,
                  Number(11, 2), Number(2, 1))>>,
        <<"t", "e", "s", "t", "1", "2", "3">>, <<"E", "n", "g", "l", "i", "s", "h">>,
        <<"e", "n">>, FALSE)

\* a transcript of a stream longer than a day, and one whose text holds
\* what JSON escapes
LongTranscript ==
    FetchedTranscript(
        <<Snippet(<<"l", "a", "t", "e">>, Number(3661001, 1000), Number(3, 2)),
          Snippet(<<"s", "a", "i", "d", " ", "\"", "a", "\\", "b", "\"", "\n", "o", "k">>,
                  Number(172799, 2), Number(5, 2)),
          Snippet(<<"l", "a", "t", "e", "r">>, Number(90000, 1), Number(5, 2))>>,
        ValidToken, <<"E", "n", "g", "l", "i", "s", "h">>, <<"e", "n">>, TRUE)

\* what Transcript.fetch returns for the documents of the parser model
\* the documents the transcripts of the formatter model are parsed from
FormatDocuments ==
    OtherDocuments
    \cup {NewElement(MillisNumeral(61005), MillisNumeral(2500), c) : c \in Contents}

ParsedTranscripts ==
    {FetchedTranscript(parseTranscriptXml(xmlData, preserveFormatting), ValidToken,
                       <<"E", "n", "g", "l", "i", "s", "h">>, <<"e", "n">>, isGenerated) :
        xmlData \in FormatDocuments, preserveFormatting \in BOOLEAN, isGenerated \in BOOLEAN}

FormatTranscripts == ParsedTranscripts \cup {MockTranscript, LongTranscript}

-----------------------------------------------------------------------------
(* The formatter model: one call of formatTranscript on a transcript *)

InitFormat ==
    /\ listVideoId = << >>
    /\ transcripts = << >>
    /\ call = [op |-> "none"]
    /\ receiver \in FormatTranscripts
    /\ ret = NoOutcome
    /\ IdIdle
    /\ FetchIdle

JsonFormatTranscript ==
    /\ call.op = "none"
    /\ call' = [op |-> "JSONFormatter.formatTranscript", transcript |-> receiver]
    /\ ret' = Return(jsonFormatTranscript(receiver))
    /\ UNCHANGED <<listVideoId, transcripts, receiver, input, idRet, fetchVars>>

SrtFormatTranscript ==
    /\ call.op = "none"
    /\ call' = [op |-> "SRTFormatter.formatTranscript", transcript |-> receiver]
    /\ ret' = Return(srtFormatTranscript(receiver))
    /\ UNCHANGED <<listVideoId, transcripts, receiver, input, idRet, fetchVars>>

TextFormatTranscript ==
    /\ call.op = "none"
    /\ call' = [op |-> "TextFormatter.formatTranscript", transcript |-> receiver]
    /\ ret' = Return(textFormatTranscript(receiver))
    /\ UNCHANGED <<listVideoId, transcripts, receiver, input, idRet, fetchVars>>

NextFormat ==
    \/ JsonFormatTranscript
    \/ SrtFormatTranscript
    \/ TextFormatTranscript

SpecFormat == InitFormat /\ [][NextFormat]_vars

-----------------------------------------------------------------------------
(* The command line (src/cli-implementation.ts).  The library is seen from  *)
(* its caller: list and the request of Transcript.fetch end in one of      *)
(* their outcomes; the lookups, translate and the parser are the operators *)
(* above.  The log of the calls made on the library is kept in requests.   *)


\* TextFormatter.formatTranscripts
textFormatTranscripts(ts) ==
    Join([i \in 1..Len(ts) |->
             <<"[">> \o ts[i].videoId \o <<" - ">> \o ts[i].language \o <<"]", "\n">>
             \o textFormatTranscript(ts[i])],
         <<"\n", "\n">>)

\* error instanceof Error ? error.message : String(error)
MessageOf(error) == error.message

ListCall(videoId) == [to |-> "list", videoId |-> videoId]

\* a choice of the lookup where exclude-manually-created is tested first
lookup_GeneratedFirst(args, list) ==
    IF args.excludeManuallyCreated
    THEN [to |-> "findGeneratedTranscript",
          out |-> findGeneratedTranscript(list.transcripts, list.videoId, args.languages)]
    ELSE IF args.excludeGenerated
    THEN [to |-> "findManuallyCreatedTranscript",
          out |-> findManuallyCreatedTranscript(list.transcripts, list.videoId,
                                                args.languages)]
    ELSE [to |-> "findTranscript",
          out |-> findTranscript(list.transcripts, list.videoId, args.languages)]

\* the choice of the lookup by the two exclude flags: the method called and
\* its outcome
lookup(args, list) ==
    IF args.excludeGenerated
    THEN [to |-> "findManuallyCreatedTranscript",
          out |-> findManuallyCreatedTranscript(list.transcripts, list.videoId,
                                                args.languages)]
    ELSE IF args.excludeManuallyCreated
    THEN [to |-> "findGeneratedTranscript",
          out |-> findGeneratedTranscript(list.transcripts, list.videoId, args.languages)]
    ELSE [to |-> "findTranscript",
          out |-> findTranscript(list.transcripts, list.videoId, args.languages)]

\* the try block of fetchTranscripts from the catalog to the await of
\* fetch: the calls made on the library, and the handle whose timed text is
\* requested or the error thrown on the way
selectAndStart(args, list) ==
    LET looked == lookup(args, list)
        found == looked.out
        lookupCall == <<[to |-> looked.to, languageCodes |-> args.languages]>>
    IN  IF found.kind = "throw" THEN [calls |-> lookupCall, out |-> found]
        ELSE LET translated ==
                     IF args.translateTo # None
                     THEN translate(found.value, args.translateTo[1]).out
                     ELSE found
                 translateCall ==
                     IF args.translateTo # None
                     THEN <<[to |-> "translate", this |-> found.value,
                             languageCode |-> args.translateTo[1]]>>
                     ELSE << >>
             IN  IF translated.kind = "throw"
                 THEN [calls |-> lookupCall \o translateCall, out |-> translated]
                 ELSE LET started == transcriptFetchStart(translated.value, TRUE)
                      IN  [calls |-> lookupCall \o translateCall
                                     \o <<[to |-> "transcript.fetch",
                                           this |-> translated.value,
                                           preserveFormatting |-> args.preserveFormatting]>>,
                           out |-> IF started.kind = "throw" THEN started ELSE translated]

\* the catch block of the loop
reportItem(f, videoId, error) ==
    [f EXCEPT !.stderr = Append(@, <<"Error fetching transcript for video ">> \o videoId
                                   \o <<": ">> \o MessageOf(error))]

\* an end of fetchTranscripts that formats whatever was collected
afterLoop_NoExitOnEmpty(args, f, writeFails) ==
    LET formattedOutput == IF Len(f.results) = 1
                           THEN textFormatTranscript(f.results[1])
                           ELSE textFormatTranscripts(f.results)
    IN  IF args.outputFile = None
        THEN [frame |-> [f EXCEPT !.stdout = Append(@, formattedOutput)], exitCode |-> 0]
        ELSE IF writeFails
        THEN [frame |-> [f EXCEPT !.stderr =
                             Append(@, <<"Error: ">> \o <<"ENOENT: no such file or directory">>)],
              exitCode |-> 1]
        ELSE [frame |-> [f EXCEPT !.file = Some(formattedOutput),
                                  !.stdout = Append(@, <<"Transcripts written to ">>
                                                       \o args.outputFile[1])],
              exitCode |-> 0]

\* fetchTranscripts after the loop, up to the end of the process: the exit
\* when nothing was fetched, else the output; writeFileSync may throw,
\* which the catch block of main turns into an exit
afterLoop(args, f, writeFails) ==
    IF Len(f.results) = 0
    THEN [frame |-> [f EXCEPT !.stderr =
                         Append(@, <<"No transcripts were successfully fetched">>)],
          exitCode |-> 1]
    ELSE LET formattedOutput == IF Len(f.results) = 1
                                THEN textFormatTranscript(f.results[1])
                                ELSE textFormatTranscripts(f.results)
         IN  IF args.outputFile = None
             THEN [frame |-> [f EXCEPT !.stdout = Append(@, formattedOutput)],
                   exitCode |-> 0]
             ELSE IF writeFails
             THEN [frame |-> [f EXCEPT !.stderr =
                                  Append(@, <<"Error: ">> \o <<"ENOENT: no such file or directory">>)],
                   exitCode |-> 1]
             ELSE [frame |-> [f EXCEPT !.file = Some(formattedOutput),
                                       !.stdout = Append(@, <<"Transcripts written to ">>
                                                            \o args.outputFile[1])],
                   exitCode |-> 0]

-----------------------------------------------------------------------------
(* Inputs of the command-line model *)

CliIds == {<<"dQw4w9WgXcQ">>, <<"jNQXAC9IVRw">>}

CliVideoIds == SeqsUpTo(CliIds, MaxBatch)

\* the options after the parsing of the arguments: those of a batch, and
\* those of a run that lists the transcripts
CliArgs ==
    [videoIds : CliVideoIds,
     languages : {<< <<"en">> >>},
     excludeGenerated : BOOLEAN,
     excludeManuallyCreated : BOOLEAN,
     translateTo : {None, Some(<<"de">>)},
     listTranscripts : {FALSE},
     preserveFormatting : {FALSE},
     outputFile : {None, Some(<<"out.txt">>)}]
    \cup [videoIds : CliVideoIds,
          languages : {<< <<"en">> >>},
          excludeGenerated : {FALSE},
          excludeManuallyCreated : {FALSE},
          translateTo : {None},
          listTranscripts : {TRUE},
          preserveFormatting : {FALSE},
          outputFile : {None}]

ManualEn(videoId) ==
    Transcript(videoId, <<"English">>, <<"en">>, FALSE, TRUE, TransListShort,
               TrackUrl(videoId, <<"en">>, FALSE))
GeneratedEn(videoId) ==
    Transcript(videoId, <<"English (auto-generated)">>, <<"en">>, TRUE, TRUE,
               TransListShort, TrackUrl(videoId, <<"en">>, TRUE))
ManualFr(videoId) ==
    Transcript(videoId, <<"French">>, <<"fr">>, FALSE, FALSE, << >>,
               TrackUrl(videoId, <<"fr">>, FALSE))

\* the outcomes of ytTranscript.list(videoId)
CliListOutcomes(videoId) ==
    {Throw(YoutubeTranscriptTooManyRequestError),
     Throw(YoutubeTranscriptDisabledError(videoId))}
    \cup {Return([videoId |-> videoId, transcripts |-> ts]) :
             ts \in {<<GeneratedEn(videoId), ManualEn(videoId)>>,
                     <<GeneratedEn(videoId)>>,
                     <<ManualFr(videoId), ManualEn(videoId)>>}}

\* the responses to the timed-text request
CliTimedTextResponses ==
    {[rejected |-> TRUE], [rejected |-> FALSE, ok |-> FALSE, body |-> << >>],
     [rejected |-> FALSE, ok |-> TRUE, body |-> FirstOld]}

-----------------------------------------------------------------------------
(* The command-line model: one run of the process, each action from one    *)
(* await to the next                                                        *)

InitCli ==
    /\ CatalogIdle
    /\ IdIdle
    /\ FetchIdle

Exit(code) == Return([exitCode |-> code])

\* a loop that ends at the first identifier that failed
loopStep_FailFast(args, f, writeFails) ==
    IF f.index < Len(args.videoIds) /\ f.stderr = << >>
    THEN [pc |-> "list",
          frame |-> [f EXCEPT !.index = f.index + 1],
          calls |-> <<ListCall(args.videoIds[f.index + 1])>>,
          ret |-> NoOutcome]
    ELSE LET end == afterLoop(args, f, writeFails)
         IN  [pc |-> "exited", frame |-> end.frame, calls |-> << >>,
              ret |-> Exit(end.exitCode)]

\* where the loop of fetchTranscripts goes after the item at f.index: the
\* list call for the next identifier, or the end of the process
loopStep(args, f, writeFails) ==
    IF f.index < Len(args.videoIds)
    THEN [pc |-> "list",
          frame |-> [f EXCEPT !.index = f.index + 1],
          calls |-> <<ListCall(args.videoIds[f.index + 1])>>,
          ret |-> NoOutcome]
    ELSE LET end == afterLoop(args, f, writeFails)
         IN  [pc |-> "exited", frame |-> end.frame, calls |-> << >>,
              ret |-> Exit(end.exitCode)]

\* the arguments are parsed and main runs up to its first await, or exits
Main ==
    /\ pc = "idle"
    /\ \E args \in CliArgs :
        LET f == [index |-> 0, results |-> << >>, transcript |-> NoValue,
                  stderr |-> << >>, stdout |-> << >>, file |-> None]
        IN  /\ call' = [op |-> "cli", args |-> args]
            /\ IF Len(args.videoIds) = 0
               THEN /\ pc' = "exited"
                    /\ ret' = Exit(1)
                    /\ requests' = requests
                    /\ frame' = [f EXCEPT !.stderr =
                                     <<IF args.listTranscripts
                                       THEN <<"Error: Please provide a video ID to list transcripts">>
                                       ELSE <<"Error: Please provide at least one video ID">>>>]
               ELSE /\ pc' = IF args.listTranscripts THEN "listOnly" ELSE "list"
                    /\ ret' = NoOutcome
                    /\ requests' = Append(requests, ListCall(args.videoIds[1]))
                    /\ frame' = [f EXCEPT !.index = 1]
    /\ UNCHANGED <<listVideoId, transcripts, receiver, input, idRet>>

\* listAvailableTranscripts resumes with the catalog; an error goes to the
\* catch block of main
ListTranscriptsResponse ==
    /\ pc = "listOnly"
    /\ \E out \in CliListOutcomes(call.args.videoIds[1]) :
        IF out.kind = "throw"
        THEN /\ frame' = [frame EXCEPT !.stderr =
                              Append(@, <<"Error: ">> \o MessageOf(out.error))]
             /\ ret' = Exit(1)
        ELSE /\ frame' = [frame EXCEPT !.stdout =
                              @ \o << <<"Available transcripts for video ">>
                                      \o call.args.videoIds[1] \o <<":">> >>
                                \o [i \in 1..Len(out.value.transcripts) |->
                                       <<"Language: ">> \o out.value.transcripts[i].language
                                       \o <<" (">> \o out.value.transcripts[i].languageCode
                                       \o <<")">>]]
             /\ ret' = Exit(0)
    /\ pc' = "exited"
    /\ UNCHANGED <<listVideoId, transcripts, call, receiver, input, idRet, requests>>

\* the loop of fetchTranscripts resumes with the catalog of the current
\* identifier and runs to the await of fetch, or through the catch block to
\* the next identifier or to the end
ListResponse ==
    /\ pc = "list"
    /\ \E out \in CliListOutcomes(call.args.videoIds[frame.index]) :
        \E started \in {IF out.kind = "throw" THEN [calls |-> << >>, out |-> out]
                        ELSE selectAndStart(call.args, out.value)} :
            IF started.out.kind = "throw"
            THEN \E next \in {loopStep(call.args,
                                       reportItem(frame, call.args.videoIds[frame.index],
                                                  started.out.error),
                                       writeFails) : writeFails \in BOOLEAN} :
                     /\ pc' = next.pc
                     /\ frame' = next.frame
                     /\ requests' = requests \o started.calls \o next.calls
                     /\ ret' = next.ret
            ELSE /\ pc' = "fetch"
                 /\ frame' = [frame EXCEPT !.transcript = started.out.value]
                 /\ requests' = requests \o started.calls
                 /\ ret' = ret
    /\ UNCHANGED <<listVideoId, transcripts, call, receiver, input, idRet>>

\* the loop resumes with the response to the timed-text request
FetchResponse ==
    /\ pc = "fetch"
    /\ \E resp \in CliTimedTextResponses :
        \E fetched \in {transcriptFetchEnd(frame.transcript, resp,
                                           call.args.preserveFormatting)} :
            \E f \in {IF fetched.kind = "throw"
                      THEN reportItem(frame, call.args.videoIds[frame.index], fetched.error)
                      ELSE [frame EXCEPT !.results = Append(@, fetched.value)]} :
                \E next \in {loopStep(call.args, [f EXCEPT !.transcript = NoValue],
                                      writeFails) : writeFails \in BOOLEAN} :
                    /\ pc' = next.pc
                    /\ frame' = next.frame
                    /\ requests' = requests \o next.calls
                    /\ ret' = next.ret
    /\ UNCHANGED <<listVideoId, transcripts, call, receiver, input, idRet>>

NextCli ==
    \/ Main
    \/ ListTranscriptsResponse
    \/ ListResponse
    \/ FetchResponse

SpecCli == InitCli /\ [][NextCli]_vars

-----------------------------------------------------------------------------
(* Properties of the catalog model *)

FindOps == {"findTranscript", "findManuallyCreatedTranscript", "findGeneratedTranscript"}

\* the handles a lookup mode admits
Admits(op, t) ==
    CASE op = "findTranscript" -> TRUE
      [] op = "findManuallyCreatedTranscript" -> ~t.isGenerated
      [] op = "findGeneratedTranscript" -> t.isGenerated

\* code c has a handle of the kind op admits
Offered(op, c) ==
    \E i \in 1..Len(transcripts) :
        transcripts[i].languageCode = c /\ Admits(op, transcripts[i])

\* the part of a message that follows the atom `marker`
AfterMarker(msg, marker) ==
    LET at == IndexOfAtom(msg, marker)
    IN  IF at = 0 THEN <<"(marker missing)">> ELSE SubSeq(msg, at + 1, Len(msg))

\* the part of a message between the atoms `from` and `to`
Between(msg, from, to) ==
    LET a == IndexOfAtom(msg, from)
        b == IndexOfAtom(msg, to)
    IN  IF a = 0 \/ b = 0 \/ b < a THEN <<"(marker missing)">>
        ELSE SubSeq(msg, a + 1, b - 1)

\* C1: findTranscript returns the handle of the first preference code that
\* occurs in the catalog, whatever the catalog order, and among several
\* handles of that code the first in catalog order.
C1_FirstPreferenceWins ==
    call.op = "findTranscript" =>
        LET codes == call.languageCodes
        IN  \A k \in 1..Len(codes) :
                (Offered("findTranscript", codes[k])
                 /\ \A j \in 1..(k - 1) : ~Offered("findTranscript", codes[j]))
                => /\ ret.kind = "return"
                   /\ ret.value.languageCode = codes[k]
                   /\ \E i \in 1..Len(transcripts) :
                        /\ ret.value = transcripts[i]
                        /\ \A h \in 1..(i - 1) : transcripts[h].languageCode # codes[k]

\* C1 witness: the catalog lists en before fr, the preferences are [fr, en]
\* and the fr handle comes back.
C1_Witness ==
    /\ call.op = "findTranscript"
    /\ call.languageCodes = << <<"fr">>, <<"en">> >>
    /\ Len(transcripts) >= 2
    /\ transcripts[1].languageCode = <<"en">>
    /\ transcripts[2].languageCode = <<"fr">>
    /\ ret.kind = "return"
    /\ ret.value = transcripts[2]

\* C2: the manual-only lookup never returns a generated handle and the
\* generated-only lookup never returns a manual one, and each returns a
\* handle whenever some preference code has a handle of its kind.
C2_KindRespected ==
    /\ call.op = "findManuallyCreatedTranscript" =>
        /\ ret.kind \in {"return", "throw"}
        /\ ret.kind = "return" => ret.value.isGenerated = FALSE
        /\ (\E k \in 1..Len(call.languageCodes) : Offered(call.op, call.languageCodes[k]))
           => ret.kind = "return"
    /\ call.op = "findGeneratedTranscript" =>
        /\ ret.kind \in {"return", "throw"}
        /\ ret.kind = "return" => ret.value.isGenerated = TRUE
        /\ (\E k \in 1..Len(call.languageCodes) : Offered(call.op, call.languageCodes[k]))
           => ret.kind = "return"

\* C2 witness: a generated en handle precedes the manual en handle and the
\* manual-only lookup still returns the manual one.
C2_Witness ==
    /\ call.op = "findManuallyCreatedTranscript"
    /\ call.languageCodes = << <<"en">> >>
    /\ Len(transcripts) >= 2
    /\ transcripts[1].languageCode = <<"en">> /\ transcripts[1].isGenerated
    /\ transcripts[2].languageCode = <<"en">> /\ ~transcripts[2].isGenerated
    /\ ret.kind = "return"
    /\ ret.value = transcripts[2]

\* C3: in each lookup mode, when no preference code matches, the lookup
\* fails with a message that gives the requested list, the video identifier
\* and exactly the codes of the handles the mode admits, and that says so in
\* words when there are none instead of leaving the list blank.
C3_ErrorEnumerates ==
    (call.op \in FindOps
     /\ \A k \in 1..Len(call.languageCodes) : ~Offered(call.op, call.languageCodes[k]))
    => LET admitted == CodesOf(SelectSeq(transcripts, LAMBDA t : Admits(call.op, t)))
           msg == ret.error.message
           listed == AfterMarker(msg, ". Available languages: ")
       IN  /\ ret.kind = "throw"
           /\ Between(msg, msg[2], " for video ") = Join(call.languageCodes, <<", ">>)
           /\ Between(msg, " for video ", ". Available languages: ") = listVideoId
           /\ admitted # << >> => listed = Join(admitted, <<", ">>)
           /\ admitted = << >> => listed # << >>

\* C5: translate fails with a translation error when the handle is not
\* translatable, whatever its list holds; fails with a translation error
\* listing exactly the codes of its list when the code is not in the list;
\* and succeeds only when the handle is translatable and the code is listed.
C5_TranslateGuards ==
    call.op = "translate" =>
        LET h == call.this
            listed == \E i \in 1..Len(h.translationLanguages) :
                         h.translationLanguages[i].languageCode = call.languageCode
        IN  /\ ~h.isTranslatable =>
                /\ ret.kind = "throw"
                /\ ret.error.name = "YoutubeTranscriptTranslationError"
            /\ (h.isTranslatable /\ ~listed) =>
                /\ ret.kind = "throw"
                /\ ret.error.name = "YoutubeTranscriptTranslationError"
                /\ AfterMarker(ret.error.message, ". Available languages: ")
                   = Join(CodesOf(h.translationLanguages), <<", ">>)
            /\ (ret.kind = "return") <=> (h.isTranslatable /\ listed)

\* C5 witness: a handle that is not translatable although its list holds
\* the requested code, and the call failed.
C5_Witness ==
    /\ call.op = "translate"
    /\ ~call.this.isTranslatable
    /\ \E i \in 1..Len(call.this.translationLanguages) :
          call.this.translationLanguages[i].languageCode = call.languageCode
    /\ ret.kind = "throw"

\* C6: translate never changes the handle it is called on, whether it
\* succeeds or fails, and leaves the catalog as it was.
C6_TranslateLeavesReceiver ==
    [][call'.op = "translate" =>
          /\ receiver' = call'.this
          /\ transcripts' = transcripts
          /\ listVideoId' = listVideoId]_vars

\* C6 witness: translate succeeded on a handle of the catalog, which is
\* still translatable and still has the URL the new handle's was built on.
C6_Witness ==
    /\ call.op = "translate"
    /\ call.index # 0
    /\ ret.kind = "return"
    /\ transcripts[call.index].isTranslatable
    /\ transcripts[call.index].baseUrl \o <<"&tlang=">> \o call.languageCode
       = ret.value.baseUrl

\* C7: a successful translate returns a new handle with the videoId and
\* isGenerated of the original, the requested code, the display name of the
\* first list entry with that code (the code itself when that name is
\* empty), isTranslatable false, no translation languages, and the original
\* URL followed by &tlang= and the code.
C7_TranslatedHandle ==
    (call.op = "translate" /\ ret.kind = "return") =>
        LET h == call.this
            c == call.languageCode
            v == ret.value
            first == CHOOSE i \in 1..Len(h.translationLanguages) :
                        /\ h.translationLanguages[i].languageCode = c
                        /\ \A j \in 1..(i - 1) : h.translationLanguages[j].languageCode # c
            name == h.translationLanguages[first].languageName
        IN  /\ v.videoId = h.videoId
            /\ v.isGenerated = h.isGenerated
            /\ v.languageCode = c
            /\ v.language = (IF name = << >> THEN c ELSE name)
            /\ v.isTranslatable = FALSE
            /\ v.translationLanguages = << >>
            /\ v.baseUrl = h.baseUrl \o <<"&tlang=">> \o c

\* C7 witness: a translation to es, whose display name is empty, so that the
\* new handle is named by the code.
C7_Witness ==
    /\ call.op = "translate"
    /\ call.languageCode = <<"es">>
    /\ ret.kind = "return"
    /\ ret.value.language = <<"es">>
    /\ ret.value.isGenerated

-----------------------------------------------------------------------------
(* Properties of the identifier model *)

\* the characters that end an identifier inside a URL
Terminators == {"\"", "&", "?", "/", " ", "\t", "\n", "\r"}

\* a token as the URL shapes carry it: 11 characters, none a terminator
PermittedToken(t) ==
    /\ Len(t) = 11
    /\ \A k \in 1..Len(t) : t[k] \notin Terminators

\* lit occurs somewhere in s, letter case aside
Occurs(s, lit) == \E i \in 1..Len(s) : LitAt(s, i, lit)

\* s shows one of the four named shapes: a v= query parameter, youtu.be/,
\* /embed/ or /v/
ShowsNamedShape(s) ==
    \/ Occurs(s, <<"?", "v", "=">>) \/ Occurs(s, <<"&", "v", "=">>)
    \/ Occurs(s, <<"y", "o", "u", "t", "u", ".", "b", "e", "/">>)
    \/ Occurs(s, <<"/", "e", "m", "b", "e", "d", "/">>)
    \/ Occurs(s, <<"/", "v", "/">>)

\* s holds, somewhere, a shape the URL pattern accepts: youtu.be/T, or
\* youtube.com/ followed by v/T, e/T, embed/T, <text>?v=T, <text>&v=T or
\* <segment>/<text>/T, where T is 11 characters without a terminator and
\* <text> holds no line break
AcceptedAt(s, i, j) ==
    /\ j + 10 <= Len(s)
    /\ \A k \in j..(j + 10) : s[k] \notin Terminators
    /\ \/ LitAt(s, i, LitYoutuBe) /\ j = i + 9
       \/ /\ LitAt(s, i, LitYoutubeCom)
          /\ \/ LitAt(s, i + 12, <<"v", "/">>) /\ j = i + 14
             \/ LitAt(s, i + 12, <<"e", "/">>) /\ j = i + 14
             \/ LitAt(s, i + 12, <<"e", "m", "b", "e", "d", "/">>) /\ j = i + 18
             \/ /\ j - 3 >= i + 12
                /\ s[j - 3] \in {"?", "&"}
                /\ ToLower(s[j - 2]) = "v"
                /\ s[j - 1] = "="
                /\ \A k \in (i + 12)..(j - 4) : s[k] \notin {"\n", "\r"}
             \/ /\ j - 1 > i + 12
                /\ s[j - 1] = "/"
                /\ \E q \in (i + 13)..(j - 3) :
                      /\ s[q] = "/"
                      /\ \A k \in (i + 12)..(q - 1) : s[k] # "/"
                      /\ \A k \in (q + 1)..(j - 2) : s[k] \notin {"\n", "\r"}

AcceptedShape(s) == \E i \in 1..Len(s), j \in 1..Len(s) : AcceptedAt(s, i, j)

\* C8: extractVideoId returns every input of length 11 unchanged, also one
\* that is no identifier or that looks like a piece of a URL.
C8_ElevenIsIdentity ==
    (Len(input) = 11 /\ idRet.kind # "none") => idRet = Return(input)

\* C8 witness: an 11-character input holding a slash or a blank came back
\* as it was.
C8_Witness ==
    /\ Len(input) = 11
    /\ \E k \in 1..Len(input) : input[k] \in {"/", " "}
    /\ idRet = Return(input)

\* C9 as claimed: each of the four shapes around a permitted token T gives
\* T, and an input of another length than 11 that shows none of the four
\* shapes fails with a YoutubeTranscriptError.
C9_FourShapesOnly ==
    idRet.kind # "none" =>
        /\ \A pre \in SchemePrefixes, shape \in KnownShapes, t \in Tokens :
              (PermittedToken(t) /\ input = pre \o shape \o t) => idRet = Return(t)
        /\ (Len(input) # 11 /\ ~ShowsNamedShape(input)) =>
              /\ idRet.kind = "throw"
              /\ idRet.error.name = "YoutubeTranscriptError"

\* C9 amended: each of the four shapes around a permitted token T gives T,
\* and an input of another length than 11 fails with a YoutubeTranscriptError
\* exactly when it holds none of the shapes the URL pattern accepts (the four
\* named, youtube.com/e/T and youtube.com/<segment>/<text>/T).
C9_ShapesOfThePattern ==
    idRet.kind # "none" =>
        /\ \A pre \in SchemePrefixes, shape \in KnownShapes, t \in Tokens :
              (PermittedToken(t) /\ input = pre \o shape \o t) => idRet = Return(t)
        /\ Len(input) # 11 =>
              /\ (idRet.kind = "throw") <=> ~AcceptedShape(input)
              /\ idRet.kind = "throw" => idRet.error.name = "YoutubeTranscriptError"

\* C9 witness: https://www.youtube.com/v/T resolved to T.
C9_Witness ==
    /\ input = <<"h", "t", "t", "p", "s", ":", "/", "/", "w", "w", "w", ".">> \o ShapeV \o ValidToken
    /\ idRet = Return(ValidToken)

\* the unreserved characters of a URL
UrlSafe(c) ==
    \/ \E i \in 1..Len(UpperCase) : c = UpperCase[i] \/ c = LowerCase[i]
    \/ c \in Digits
    \/ c \in {"-", "_", ".", "~"}

\* C10 as claimed: every identifier extractVideoId returns is 11 characters
\* long, not empty, and made of URL-safe characters only.
C10_IdentifierIsUrlSafe ==
    idRet.kind = "return" =>
        /\ Len(idRet.value) = 11
        /\ idRet.value # << >>
        /\ \A k \in 1..Len(idRet.value) : UrlSafe(idRet.value[k])

\* C10 amended: every identifier extractVideoId returns is 11 characters
\* long and not empty, and one taken out of a longer or shorter input holds
\* no quote, &, ?, / or white space.
C10_IdentifierLength ==
    idRet.kind = "return" =>
        /\ Len(idRet.value) = 11
        /\ idRet.value # << >>
        /\ Len(input) # 11 => \A k \in 1..Len(idRet.value) : idRet.value[k] \notin Terminators

\* C10 witness: an identifier taken out of an input that goes on after it.
C10_Witness ==
    /\ idRet.kind = "return"
    /\ Len(input) > 11
    /\ \E k \in 1..Len(input) : input[k] = "&"
    /\ Len(idRet.value) = 11

-----------------------------------------------------------------------------
(* Properties of the fetch model *)

\* the catalog of the video was built and none of the requested languages
\* is in it
NoneOffered ==
    /\ call.op = "fetch"
    /\ pc \in {"done", "timedText"}
    /\ frame.step \in {"findTranscript", "transcript.fetch"}
    /\ \A i \in 1..Len(frame.languages) :
           IndexOfCode(transcripts, frame.languages[i]) = 0

(* C4: when YoutubeTranscript.fetch is asked for languages none of which   *)
(* the video offers, the call ends with an error whose name is             *)
(* 'YoutubeTranscriptNotAvailableLanguageError'.                           *)
C4_LanguageErrorKind ==
    NoneOffered =>
        /\ pc = "done"
        /\ ret.kind = "throw"
        /\ ret.error.name = "YoutubeTranscriptNotAvailableLanguageError"

-----------------------------------------------------------------------------
(* Properties of the parser model *)

Parsed == call.op = "parseTranscriptXml"

\* the document made of one element, of t and d milliseconds and content c,
\* in the new or in the old format
OneElement(isNewFormat, t, d, c) ==
    IF isNewFormat THEN NewElement(MillisNumeral(t), MillisNumeral(d), c)
    ELSE OldElement(SecondsNumeral(t), SecondsNumeral(d), c)

(* C11: an element <p t d> whose attributes are the milliseconds 1000*s    *)
(* and 1000*u and an element <text start dur> whose attributes are the     *)
(* seconds s and u, with the same content, are parsed to the same one      *)
(* snippet, of start s and duration u.                                     *)
C11_DialectsAgree ==
    \A isNewFormat \in BOOLEAN, t \in StartMillis, d \in DurMillis, c \in Contents :
        (Parsed /\ call.xmlData = OneElement(isNewFormat, t, d, c)) =>
            /\ Len(ret.value) = 1
            /\ ret.value[1].start = Number(t, 1000)
            /\ ret.value[1].duration = Number(d, 1000)
            /\ ret.value = parseTranscriptXml(OneElement(~isNewFormat, t, d, c),
                                              call.preserveFormatting)

C11_Witness ==
    /\ Parsed
    /\ call.xmlData = <<"<", "p", " ", "t", "=", "\"", "1", "3", "6", "0", "\"", " ", "d", "=", "\"", "1", "6", "8", "0", "\"", ">", "H", "i", "<", "/", "p", ">">>
    /\ ret.value = <<TranscriptSnippet(<<"H", "i">>, Number(136, 100), Number(168, 100))>>

\* no white space at either end
Trimmed(text) ==
    text = << >> \/ (text[1] \notin WhiteSpace /\ text[Len(text)] \notin WhiteSpace)

\* no < with a > somewhere after it
TagFree(text) ==
    ~ \E i \in 1..Len(text), j \in 1..Len(text) : i < j /\ text[i] = "<" /\ text[j] = ">"

\* what the contents of the parser model are to read as, with the formatting
\* preserved and without it
ReadsAs(c, preserveFormatting) ==
    CASE c = <<"H", "i">> -> <<"H", "i">>
      [] c = <<"A", " ", "&", "a", "m", "p", ";", " ", "B", " ", "&", "l", "t", ";", "t", "a", "g", "&", "g", "t", ";">> ->
            IF preserveFormatting THEN <<"A", " ", "&", " ", "B", " ", "<", "t", "a", "g", ">">> ELSE <<"A", " ", "&", " ", "B">>
      [] c = <<" ", " ", "t", "w", "o", " ", "w", "o", "r", "d", "s", " ", "\n">> -> <<"t", "w", "o", " ", "w", "o", "r", "d", "s">>
      [] c = <<"&", "a", "m", "p", ";", "l", "t", ";", "b", "&", "a", "m", "p", ";", "g", "t", ";", "x">> -> IF preserveFormatting THEN <<"<", "b", ">", "x">> ELSE <<"x">>
      [] c = <<"&", "q", "u", "o", "t", ";", "q", "&", "q", "u", "o", "t", ";", " ", "&", "#", "3", "9", ";", "s", "&", "#", "3", "9", ";">> -> <<"\"", "q", "\"", " ", "'", "s", "'">>
      [] c = <<"1", " ", "&", "g", "t", ";", " ", "0", " ", "&", "l", "t", ";", " ", "2">> -> <<"1", " ", ">", " ", "0", " ", "<", " ", "2">>
      [] c = << >> -> << >>

(* C12: the text of every snippet is the content of its element with the   *)
(* five entities decoded, then, unless the formatting is preserved, every  *)
(* <...> removed, those that the decoding made included, then trimmed:     *)
(* 'A &amp; B &lt;tag&gt;' gives 'A & B', and 'A & B <tag>' when the        *)
(* formatting is preserved.                                                *)
C12_DecodeStripTrim ==
    Parsed =>
        /\ \A k \in 1..Len(ret.value) :
            /\ Trimmed(ret.value[k].text)
            /\ ~call.preserveFormatting => TagFree(ret.value[k].text)
        /\ \A isNewFormat \in BOOLEAN, t \in StartMillis, d \in DurMillis, c \in Contents :
            call.xmlData = OneElement(isNewFormat, t, d, c) =>
                /\ Len(ret.value) = 1
                /\ ret.value[1].text = ReadsAs(c, call.preserveFormatting)

C12_Witness ==
    /\ Parsed
    /\ ~call.preserveFormatting
    /\ call.xmlData = <<"<", "t", "e", "x", "t", " ", "s", "t", "a", "r", "t", "=", "\"", "1", ".", "3", "6", "\"", " ", "d", "u", "r", "=", "\"", "1", ".", "6", "8", "\"", ">", "A", " ", "&", "a", "m", "p", ";", " ", "B", " ", "&", "l", "t", ";", "t", "a", "g", "&", "g", "t", ";", "<", "/", "t", "e", "x", "t", ">">>
    /\ ret.value[1].text = <<"A", " ", "&", " ", "B">>

-----------------------------------------------------------------------------
(* Properties of fetch on a handle *)

\* fetch was called on a handle, by the caller or by YoutubeTranscript.fetch
FetchOnHandle == pc # "idle" /\ frame.step = "transcript.fetch"

(* C13: fetch on a handle whose URL holds '&exp=xpe' fails with a          *)
(* not-available error, and no request for the timed text is ever made.    *)
C13_PoTokenFailsFast ==
    (FetchOnHandle /\ RequiresPoToken(frame.transcript.baseUrl)) =>
        /\ pc = "done"
        /\ ret.kind = "throw"
        /\ ret.error.name = "YoutubeTranscriptNotAvailableError"
        /\ frame.response = None
        /\ \A k \in 1..Len(requests) : requests[k].to # "timedText"

C13_Witness ==
    /\ FetchOnHandle
    /\ frame.hasHttpClient
    /\ RequiresPoToken(frame.transcript.baseUrl)
    /\ IndexOfAtom(frame.transcript.baseUrl, "&tlang=") # 0
    /\ ret = Throw(YoutubeTranscriptNotAvailableError(<<"PoToken required for this transcript">>))

(* C14: when the response to the timed-text request is not a success, fetch *)
(* fails with YoutubeTranscriptNotAvailableError for the videoId of the     *)
(* handle, the body is not read and no FetchedTranscript is returned.       *)
C14_StatusBeforeBody ==
    (FetchOnHandle /\ frame.response = Some("not ok")) =>
        /\ pc = "done"
        /\ ret = Throw(YoutubeTranscriptNotAvailableError(frame.transcript.videoId))
        /\ ~frame.bodyRead

C14_Witness ==
    /\ FetchOnHandle
    /\ call.op = "fetch"
    /\ frame.response = Some("not ok")
    /\ ret.kind = "throw"
    /\ ret.error.message = ErrorPrefix \o <<"No transcripts are available for this video (">>
                           \o ValidToken \o <<")">>

-----------------------------------------------------------------------------
(* Properties of the page-scrape model *)

\* the watch page has arrived, for list or for the legacy fetchTranscript
PageSeen ==
    /\ pc \in {"done", "legacyTimedText"}
    /\ frame.step \in {"list", "fetchTranscript"}
    /\ ~frame.page.rejected

(* C15: in the page-scrape list and in the legacy fetchTranscript a watch  *)
(* page that holds the bot-challenge marker fails with the too-many-       *)
(* requests error whatever else it holds, and one without that marker and  *)
(* without the playability marker fails with the video-unavailable error.  *)
C15_PageChecksFirst ==
    PageSeen =>
        /\ hasCaptchaChallenge(frame.page.body) =>
              /\ pc = "done"
              /\ ret.kind = "throw"
              /\ ClassOf(ret.error) = "YoutubeTranscriptTooManyRequestError"
        /\ (~hasCaptchaChallenge(frame.page.body) /\ ~isVideoAvailable(frame.page.body)) =>
              /\ pc = "done"
              /\ ret.kind = "throw"
              /\ ClassOf(ret.error) = "YoutubeTranscriptVideoUnavailableError"

\* the body that passes both checks and holds the given captions part
PassingBody(part) ==
    <<"<html>">> \o <<PlayabilityMarker, "{\"status\":\"OK\"}">> \o part \o <<"</html>">>

\* the captions parts with no marker, or with no blob after it, a blob that
\* is not one JSON text, or a JSON value without the renderer
PartsWithoutRenderer ==
    {<< >>, <<CaptionsMarker>>,
     <<CaptionsMarker, "{malformed-json}", VideoDetailsMarker, "\":{}">>,
     <<CaptionsMarker, "{\"playerCaptionsTracklistRenderer\":{\"captionTracks\":[en]}}">>,
     <<CaptionsMarker, "{}", CaptionsMarker,
       "{\"playerCaptionsTracklistRenderer\":{\"captionTracks\":[en]}}", VideoDetailsMarker>>,
     <<CaptionsMarker, "{\"playerCaptionsTracklistRenderer\":{\"captionTracks\":[en]}}",
       "{}", VideoDetailsMarker>>,
     <<CaptionsMarker, "null", VideoDetailsMarker, "\":{}">>,
     <<CaptionsMarker, "{}", VideoDetailsMarker, "\":{}">>}

\* the captions parts whose renderer has no captionTracks key
PartsWithoutTracks ==
    {<<CaptionsMarker, "{\"playerCaptionsTracklistRenderer\":{}}", VideoDetailsMarker,
       "\":{}">>}

\* the captions parts whose renderer lists n well-formed tracks
PartWithTracks(n) ==
    CASE n = 0 -> <<CaptionsMarker,
                    "{\"playerCaptionsTracklistRenderer\":{\"captionTracks\":[]}}",
                    VideoDetailsMarker, "\":{}">>
      [] n = 1 -> <<CaptionsMarker, "\n",
                    "{\"playerCaptionsTracklistRenderer\":{\"captionTracks\":[en]}}",
                    "\n", VideoDetailsMarker>>
      [] n = 2 -> <<CaptionsMarker,
                    "{\"playerCaptionsTracklistRenderer\":{\"captionTracks\":[fr,en]}}",
                    VideoDetailsMarker, "\":{}">>

(* C16: in the page-scrape list, once the page has passed the checks: with *)
(* no captions marker, no blob, a blob that does not parse or a value      *)
(* without the renderer the call fails with the captions-disabled error;   *)
(* with a renderer without captionTracks it fails with the                 *)
(* no-transcripts-available error; a catalog is built only otherwise, and  *)
(* is built of the tracks listed.                                          *)
C16_CaptionsBlobOutcomes ==
    (PageSeen /\ call.op = "list") =>
        /\ \A part \in PartsWithoutRenderer :
              frame.page.body = PassingBody(part) =>
                  ret = Throw(YoutubeTranscriptDisabledError(frame.identifier))
        /\ \A part \in PartsWithoutTracks :
              frame.page.body = PassingBody(part) =>
                  ret = Throw(YoutubeTranscriptNotAvailableError(frame.identifier))
        /\ \A n \in 0..2 :
              frame.page.body = PassingBody(PartWithTracks(n)) =>
                  /\ ret.kind = "return"
                  /\ Len(ret.value.transcripts) = n
        /\ ret.kind = "return" =>
              \E part \in CaptionsParts \ (PartsWithoutRenderer \cup PartsWithoutTracks) :
                  frame.page.body = PassingBody(part)

C16_Witness ==
    /\ PageSeen
    /\ call.op = "list"
    /\ frame.page.body = PassingBody(<<CaptionsMarker, "{malformed-json}",
                                       VideoDetailsMarker, "\":{}">>)
    /\ ret.kind = "throw"
    /\ ret.error.name = "YoutubeTranscriptDisabledError"

-----------------------------------------------------------------------------
(* Properties of the player-API listing (SpecFetch) *)

\* list has read the JSON of a player response
PlayerDataSeen ==
    /\ call.op = "fetch"
    /\ frame.step # "extractVideoId"
    /\ frame.player # None
    /\ ~frame.player[1].rejected
    /\ frame.player[1].ok
    /\ frame.player[1].json # None

PlayerDataOf == frame.player[1].json[1]

CaptionsMissing(playerData) ==
    playerData.captions = None \/ playerData.captions[1].captionTracks = None

(* C17: a player response whose playability status is not OK, or missing,  *)
(* yields no catalog: the bot-challenge reason gives the too-many-requests *)
(* error and every other reason, or none, the video-unavailable error; a   *)
(* response with status OK but without the tracklist renderer, or without  *)
(* captionTracks in it, gives the captions-disabled error.                 *)
C17_PlayabilityOutcomes ==
    PlayerDataSeen =>
        /\ PlayerDataOf.status # Some(<<"OK">>) =>
              /\ pc = "done"
              /\ transcripts = << >>
              /\ ret = IF PlayerDataOf.reason = Some(BotReason)
                       THEN Throw(YoutubeTranscriptTooManyRequestError)
                       ELSE Throw(YoutubeTranscriptVideoUnavailableError(frame.identifier))
        /\ (PlayerDataOf.status = Some(<<"OK">>) /\ CaptionsMissing(PlayerDataOf)) =>
              /\ pc = "done"
              /\ transcripts = << >>
              /\ ret = Throw(YoutubeTranscriptDisabledError(frame.identifier))

\* a response without a status that carries a track list is turned down
C17_Witness ==
    /\ PlayerDataSeen
    /\ PlayerDataOf.status = None
    /\ PlayerDataOf.reason = Some(BotReason)
    /\ PlayerDataOf.captions # None
    /\ ret = Throw(YoutubeTranscriptTooManyRequestError)

-----------------------------------------------------------------------------
(* Properties of the failures of list *)

\* the page-scrape list has ended by throwing
ScrapeListFailed ==
    /\ call.op = "list"
    /\ pc = "done"
    /\ frame.step = "list"
    /\ ret.kind = "throw"

(* C18: a failure of list reaches the caller as a typed error: a typed     *)
(* error raised at a step keeps its kind, and every other failure on the   *)
(* way to the catalog, such as the rejection of the transport or a         *)
(* malformed track list, is YoutubeTranscriptNotAvailableError for the     *)
(* video identifier.                                                       *)
C18_ListCatchAll ==
    ScrapeListFailed =>
        /\ IsYoutubeTranscriptError(ret.error)
        /\ frame.page.rejected =>
               ret = Throw(YoutubeTranscriptNotAvailableError(frame.identifier))

(* C19: every failure that reaches the caller of YoutubeTranscript.fetch    *)
(* or of fetch on a handle is a typed YoutubeTranscriptError, also when    *)
(* the transport rejects the watch-page or the timed-text request.         *)
C19_OnlyTypedErrors ==
    (call.op \in {"fetch", "transcript.fetch"} /\ pc = "done" /\ ret.kind = "throw") =>
        IsYoutubeTranscriptError(ret.error)

-----------------------------------------------------------------------------
(* Properties of the names in the catalog (SpecFetch) *)

\* list has returned a catalog built from the player response
CatalogBuilt ==
    /\ call.op = "fetch"
    /\ frame.step \in {"findTranscript", "transcript.fetch"}

RendererOf == frame.player[1].json[1].captions[1]

\* the simple string if there is one, else the first run, else the code
SimpleStringFirst(name, languageCode) ==
    IF name # None /\ TruthyString(name[1].simpleText) THEN name[1].simpleText[1]
    ELSE IF name # None /\ name[1].runs # None /\ Len(name[1].runs[1]) > 0
            /\ TruthyString(name[1].runs[1][1].text)
    THEN name[1].runs[1][1].text[1]
    ELSE languageCode

NamedSimpleStringFirst(langs, raw) ==
    /\ Len(langs) = Len(raw)
    /\ \A j \in 1..Len(raw) :
           langs[j].languageName =
               SimpleStringFirst(raw[j].languageName, raw[j].languageCode)

(* C20: the display name of a track, and of a translation-language entry,  *)
(* is its simple string when it has one, else the text of the first run of *)
(* its rich text, else the language code; with both a simple string and a  *)
(* run, the simple string is the name; the name is not empty.              *)
C20_NameResolution ==
    CatalogBuilt =>
        LET tracks == RendererOf.captionTracks[1]
        IN  /\ Len(transcripts) = Len(tracks)
            /\ \A i \in 1..Len(tracks) :
                 /\ transcripts[i].language =
                        SimpleStringFirst(tracks[i].name, tracks[i].languageCode)
                 /\ transcripts[i].language # << >>
                 /\ NamedSimpleStringFirst(
                        transcripts[i].translationLanguages,
                        IF tracks[i].translationLanguages # None
                        THEN tracks[i].translationLanguages[1]
                        ELSE IF RendererOf.translationLanguages # None
                        THEN RendererOf.translationLanguages[1]
                        ELSE << >>)

-----------------------------------------------------------------------------
(* Properties of the language preferences (SpecFetch) *)

\* fetch has resolved the identifier and chosen its languages
LanguagesChosen == call.op = "fetch" /\ frame.step # "extractVideoId"

HasLanguages(config) ==
    config # None /\ config[1].languages # None /\ config[1].languages[1] # << >>

\* lang is set: it holds a string that is not empty
HasLang(config) == config # None /\ config[1].lang # None /\ config[1].lang[1] # << >>

(* C21: the preference list of fetch is config.languages when that is a    *)
(* list that is not empty, whether lang is set or not; else the list of    *)
(* the one code config.lang when lang is set; else the list of "en", as    *)
(* for an absent config or an empty languages list with no lang.  The      *)
(* handle fetch selects has a code of that list.                           *)
C21_LanguagePreference ==
    LanguagesChosen =>
        /\ HasLanguages(call.config) => frame.languages = call.config[1].languages[1]
        /\ (~HasLanguages(call.config) /\ HasLang(call.config)) =>
               frame.languages = <<call.config[1].lang[1]>>
        /\ (~HasLanguages(call.config) /\ ~HasLang(call.config)) =>
               frame.languages = << <<"en">> >>
        /\ frame.step = "transcript.fetch" =>
               \E k \in 1..Len(frame.languages) :
                   frame.transcript.languageCode = frame.languages[k]

\* both fields are set and the transcript is selected by the list
C21_Witness ==
    /\ LanguagesChosen
    /\ HasLanguages(call.config)
    /\ HasLang(call.config)
    /\ frame.step = "transcript.fetch"
    /\ frame.languages = << <<"fr">>, <<"en">> >>
    /\ frame.transcript.languageCode = <<"fr">>

-----------------------------------------------------------------------------
(* Properties of the formatter model *)

\* JSON.parse, for texts that are an array of objects whose values are
\* strings, numbers, true, false or null; a result is the value read and
\* the position after it, or a failure
ParseFailure == [ok |-> FALSE]
Parsed_(value, next) == [ok |-> TRUE, value |-> value, next |-> next]

JString(v) == [type |-> "string", value |-> v]
JNumber(x) == [type |-> "number", value |-> x]
JBoolean(b) == [type |-> "boolean", value |-> b]
JNull == [type |-> "null"]

Unescaped(c) ==
    IF c = "n" THEN "\n" ELSE IF c = "t" THEN "\t" ELSE c

\* the characters of a string from i, after its opening quote, up to its
\* closing quote
RECURSIVE ParseStringBody(_, _)
ParseStringBody(s, i) ==
    IF i > Len(s) THEN ParseFailure
    ELSE IF s[i] = "\"" THEN Parsed_(<< >>, i + 1)
    ELSE IF s[i] = "\\"
    THEN IF i + 1 > Len(s) \/ s[i + 1] \notin {"\"", "\\", "/", "n", "t"} THEN ParseFailure
         ELSE LET rest == ParseStringBody(s, i + 2)
              IN  IF rest.ok THEN Parsed_(<<Unescaped(s[i + 1])>> \o rest.value, rest.next)
                  ELSE ParseFailure
    ELSE IF s[i] \in {"\n", "\t"} THEN ParseFailure
    ELSE LET rest == ParseStringBody(s, i + 1)
         IN  IF rest.ok THEN Parsed_(<<s[i]>> \o rest.value, rest.next) ELSE ParseFailure

ParseString(s, i) ==
    IF i <= Len(s) /\ s[i] = "\"" THEN ParseStringBody(s, i + 1) ELSE ParseFailure

\* a number: a sign, digits, a point and digits
ParseNumber(s, i) ==
    LET b == IF i <= Len(s) /\ s[i] = "-" THEN i + 1 ELSE i
        c == DigitsEnd(s, b)
        d == IF c <= Len(s) /\ s[c] = "." THEN DigitsEnd(s, c + 1) ELSE c
    IN  IF c = b \/ (d # c /\ d = c + 1) THEN ParseFailure
        ELSE Parsed_(JNumber(parseFloat(SubSeq(s, i, d - 1))), d)

ParseScalar(s, i) ==
    IF i > Len(s) THEN ParseFailure
    ELSE IF s[i] = "\""
    THEN LET str == ParseString(s, i)
         IN  IF str.ok THEN Parsed_(JString(str.value), str.next) ELSE ParseFailure
    ELSE IF LiteralAt(s, i, <<"t", "r", "u", "e">>) THEN Parsed_(JBoolean(TRUE), i + 4)
    ELSE IF LiteralAt(s, i, <<"f", "a", "l", "s", "e">>) THEN Parsed_(JBoolean(FALSE), i + 5)
    ELSE IF LiteralAt(s, i, <<"n", "u", "l", "l">>) THEN Parsed_(JNull, i + 4)
    ELSE ParseNumber(s, i)

\* the members of an object from i, after its opening brace or a comma
RECURSIVE ParseMembers(_, _)
ParseMembers(s, i) ==
    LET key == ParseString(s, i)
    IN  IF ~key.ok \/ key.next > Len(s) \/ s[key.next] # ":" THEN ParseFailure
        ELSE LET val == ParseScalar(s, key.next + 1)
                 member == [key |-> key.value, value |-> val.value]
             IN  IF ~val.ok \/ val.next > Len(s) THEN ParseFailure
                 ELSE IF s[val.next] = "}" THEN Parsed_(<<member>>, val.next + 1)
                 ELSE IF s[val.next] = ","
                 THEN LET rest == ParseMembers(s, val.next + 1)
                      IN  IF rest.ok THEN Parsed_(<<member>> \o rest.value, rest.next)
                          ELSE ParseFailure
                 ELSE ParseFailure

ParseObject(s, i) ==
    IF i + 1 > Len(s) \/ s[i] # "{" THEN ParseFailure
    ELSE IF s[i + 1] = "}" THEN Parsed_(<< >>, i + 2)
    ELSE ParseMembers(s, i + 1)

\* the objects of an array from i, after its opening bracket or a comma
RECURSIVE ParseElements(_, _)
ParseElements(s, i) ==
    LET obj == ParseObject(s, i)
    IN  IF ~obj.ok \/ obj.next > Len(s) THEN ParseFailure
        ELSE IF s[obj.next] = "]" THEN Parsed_(<<obj.value>>, obj.next + 1)
        ELSE IF s[obj.next] = ","
        THEN LET rest == ParseElements(s, obj.next + 1)
             IN  IF rest.ok THEN Parsed_(<<obj.value>> \o rest.value, rest.next)
                 ELSE ParseFailure
        ELSE ParseFailure

JSONparseArray(s) ==
    LET got == IF Len(s) < 2 \/ s[1] # "[" THEN ParseFailure
               ELSE IF s[2] = "]" THEN Parsed_(<< >>, 3)
               ELSE ParseElements(s, 2)
    IN  IF got.ok /\ got.next = Len(s) + 1 THEN got ELSE ParseFailure

\* the keys of a parsed object, and the value of the last member with key
KeysOf(object) == {object[k].key : k \in 1..Len(object)}
ValueOf(object, key) ==
    LET ks == {k \in 1..Len(object) : object[k].key = key}
    IN  object[MaxOf(ks)].value

Formatted(op) == call.op = op /\ ret.kind = "return"

(* C22: the text of JSONFormatter.formatTranscript parses as JSON to one   *)
(* entry per segment, in the order of the segments; the offset, duration   *)
(* and text of each entry are the start, duration and text of its segment, *)
(* lang and isGenerated are the languageCode and isGenerated of the        *)
(* transcript, and no entry has a key "start".                             *)
C22_JsonRoundTrip ==
    Formatted("JSONFormatter.formatTranscript") =>
        LET parsed == JSONparseArray(ret.value)
            snippets == receiver.snippets
        IN  /\ parsed.ok
            /\ Len(parsed.value) = Len(snippets)
            /\ \A i \in 1..Len(snippets) :
                 LET entry == parsed.value[i]
                 IN  /\ KeysOf(entry) = {<<"t", "e", "x", "t">>, <<"d", "u", "r", "a", "t", "i", "o", "n">>, <<"o", "f", "f", "s", "e", "t">>, <<"l", "a", "n", "g">>,
                                         <<"i", "s", "G", "e", "n", "e", "r", "a", "t", "e", "d">>}
                     /\ <<"s", "t", "a", "r", "t">> \notin KeysOf(entry)
                     /\ ValueOf(entry, <<"o", "f", "f", "s", "e", "t">>) = JNumber(snippets[i].start)
                     /\ ValueOf(entry, <<"d", "u", "r", "a", "t", "i", "o", "n">>) = JNumber(snippets[i].duration)
                     /\ ValueOf(entry, <<"t", "e", "x", "t">>) = JString(snippets[i].text)
                     /\ ValueOf(entry, <<"l", "a", "n", "g">>) = JString(receiver.languageCode)
                     /\ ValueOf(entry, <<"i", "s", "G", "e", "n", "e", "r", "a", "t", "e", "d">>) = JBoolean(receiver.isGenerated)

\* the decomposition of a time in seconds that is a number and not
\* negative: hours, minutes, seconds and the milliseconds without their
\* fraction
HasTimestamp(x) == ~x.nan /\ x.num >= 0
Timestamp(x) ==
    LET total == (x.num \div x.den) * 1000 + ((x.num % x.den) * 1000) \div x.den
    IN  padStart(DecimalOf(total \div 3600000), 2, "0") \o <<":">>
        \o padStart(DecimalOf((total \div 60000) % 60), 2, "0") \o <<":">>
        \o padStart(DecimalOf((total \div 1000) % 60), 2, "0") \o <<",">>
        \o padStart(DecimalOf(total % 1000), 3, "0")

SrtBlockOf(snippet, i) ==
    DecimalOf(i) \o <<"\n">>
    \o Timestamp(snippet.start) \o <<" ", "-", "-", ">", " ">>
    \o Timestamp(Add(snippet.start, snippet.duration))
    \o <<"\n">> \o snippet.text \o <<"\n">>

TimedSnippets(snippets) ==
    \A i \in 1..Len(snippets) :
        /\ HasTimestamp(snippets[i].start)
        /\ HasTimestamp(Add(snippets[i].start, snippets[i].duration))

IsPrefix(p, s) == Len(p) <= Len(s) /\ SubSeq(s, 1, Len(p)) = p

(* C23: SRTFormatter.formatTranscript emits for the i-th segment, counted  *)
(* from 1 in the order of the segments, the number i, the line             *)
(* 'HH:MM:SS,mmm --> HH:MM:SS,mmm' of the decompositions of start and of   *)
(* start + duration, the milliseconds without their fraction, and the      *)
(* text; a first segment with start 0 and duration 2.5 gives a block that  *)
(* begins with '1' and '00:00:00,000 --> 00:00:02,500'.                    *)
C23_SrtBlocks ==
    Formatted("SRTFormatter.formatTranscript") =>
        LET snippets == receiver.snippets
        IN  /\ TimedSnippets(snippets)
            /\ ret.value = Join([i \in 1..Len(snippets) |-> SrtBlockOf(snippets[i], i)],
                                <<"\n">>)
            /\ (/\ Len(snippets) >= 1
                /\ snippets[1].start = Number(0, 1)
                /\ snippets[1].duration = Number(5, 2)) =>
                   IsPrefix(<<"1">> \o <<"\n">> \o <<"0", "0", ":", "0", "0", ":", "0", "0", ",", "0", "0", "0", " ", "-", "-", ">", " ", "0", "0", ":", "0", "0", ":", "0", "2", ",", "5", "0", "0">> \o <<"\n">>,
                            ret.value)

-----------------------------------------------------------------------------
(* Properties of the command-line model *)

\* a run that fetches transcripts for at least one identifier
BatchRun ==
    /\ call.op = "cli"
    /\ ~call.args.listTranscripts
    /\ Len(call.args.videoIds) > 0

Exited == pc = "exited"

\* the calls of the log made to one of the given methods
CallsTo(methods) == SelectSeq(requests, LAMBDA c : c.to \in methods)

\* the identifiers reported by the catch block of the loop, in order
ReportedIds ==
    LET reports == SelectSeq(frame.stderr,
                             LAMBDA l : l[1] = "Error fetching transcript for video ")
    IN  [i \in 1..Len(reports) |-> <<reports[i][2]>>]

ResultIds == [i \in 1..Len(frame.results) |-> frame.results[i].videoId]

\* c is a and b merged, each in its own order
RECURSIVE Interleaves(_, _, _)
Interleaves(a, b, c) ==
    IF c = << >> THEN a = << >> /\ b = << >>
    ELSE \/ a # << >> /\ Head(a) = Head(c) /\ Interleaves(Tail(a), b, Tail(c))
         \/ b # << >> /\ Head(b) = Head(c) /\ Interleaves(a, Tail(b), Tail(c))

\* the formatted results, as fetchTranscripts writes them
FormattedResults ==
    IF Len(frame.results) = 1 THEN textFormatTranscript(frame.results[1])
    ELSE textFormatTranscripts(frame.results)

(* C24: the batch loop takes the identifiers one at a time in the order    *)
(* given and attempts each exactly once: list is called for the            *)
(* identifiers up to the current one, in order, and at the end for all of  *)
(* them; an identifier that fails at any step is reported and the ones     *)
(* after it are still attempted; the results are the transcripts of the    *)
(* identifiers that succeeded, in the order given.                         *)
C24_BatchAttemptsAll ==
    BatchRun =>
        LET videoIds == call.args.videoIds
            attempted == IF Exited THEN Len(videoIds) ELSE frame.index
            settled == IF Exited THEN Len(videoIds) ELSE frame.index - 1
        IN  /\ CallsTo({"list"}) = [i \in 1..attempted |-> ListCall(videoIds[i])]
            /\ Len(ReportedIds) + Len(ResultIds) = settled
            /\ Interleaves(ReportedIds, ResultIds, SubSeq(videoIds, 1, settled))

\* the first identifier failed and the second one was fetched
C24_Witness ==
    /\ BatchRun
    /\ Exited
    /\ Len(call.args.videoIds) = 2
    /\ call.args.videoIds[1] # call.args.videoIds[2]
    /\ ReportedIds = <<call.args.videoIds[1]>>
    /\ ResultIds = <<call.args.videoIds[2]>>
    /\ ret = Exit(0)

NothingWritten ==
    /\ frame.file = None
    /\ frame.stdout = << >>

ResultsWritten ==
    IF call.args.outputFile = None
    THEN frame.stdout = <<FormattedResults>> /\ frame.file = None
    ELSE frame.file = Some(FormattedResults)

LookupMethods ==
    {"findTranscript", "findManuallyCreatedTranscript", "findGeneratedTranscript"}

\* the method the flags of the run ask for
ModeOf(args) ==
    IF args.excludeGenerated THEN "findManuallyCreatedTranscript"
    ELSE IF args.excludeManuallyCreated THEN "findGeneratedTranscript"
    ELSE "findTranscript"

(* C29: the lookup is chosen once per run, exclude-generated first: with   *)
(* both exclude flags every lookup is the manual-only one and the          *)
(* generated-only one is never called, with no flag it is the unrestricted *)
(* one; a translation that is asked for is applied to the selected handle  *)
(* before its timed text is fetched.                                       *)
C29_SelectionMode ==
    BatchRun =>
        /\ \A k \in 1..Len(requests) :
             /\ requests[k].to \in LookupMethods => requests[k].to = ModeOf(call.args)
             /\ requests[k].to = "translate" =>
                  /\ call.args.translateTo = Some(requests[k].languageCode)
                  /\ k > 1 /\ requests[k - 1].to \in LookupMethods
                  /\ call.args.excludeGenerated => ~requests[k].this.isGenerated
             /\ requests[k].to = "transcript.fetch" =>
                  /\ k > 1
                  /\ IF call.args.translateTo = None
                     THEN /\ requests[k - 1].to \in LookupMethods
                          /\ IndexOfAtom(requests[k].this.baseUrl, "&tlang=") = 0
                     ELSE /\ requests[k - 1].to = "translate"
                          /\ requests[k].this =
                                 translate(requests[k - 1].this,
                                           call.args.translateTo[1]).out.value
                  /\ call.args.excludeGenerated => ~requests[k].this.isGenerated
        /\ (call.args.excludeGenerated /\ call.args.excludeManuallyCreated) =>
               CallsTo({"findGeneratedTranscript"}) = << >>

\* both flags are set, the catalog holds a generated and a manual English
\* transcript, and the manual one is translated and fetched
C29_Witness ==
    /\ BatchRun
    /\ call.args.excludeGenerated
    /\ call.args.excludeManuallyCreated
    /\ call.args.translateTo # None
    /\ Len(frame.results) = 1
    /\ ~frame.results[1].isGenerated
    /\ frame.results[1].languageCode = <<"de">>
    /\ Len(CallsTo({"findManuallyCreatedTranscript"})) >= 1

-----------------------------------------------------------------------------
(* Properties of the parser model: the choice of the format *)

NewElements == {FirstNew, SecondNew}
OldElements == {FirstOld, SecondOld}

\* what one of the four elements is to read as
SnippetOfElement(e, preserveFormatting) ==
    IF e \in {FirstNew, FirstOld}
    THEN TranscriptSnippet(<<"H", "i">>, Number(136, 100), Number(168, 100))
    ELSE TranscriptSnippet(IF preserveFormatting
                           THEN <<"<", "i", ">", "t", "h", "e", "r", "e", "<", "/", "i", ">">>
                           ELSE <<"t", "h", "e", "r", "e">>,
                           Number(1, 2), Number(1, 50))

\* the elements of the format the document is read in: the <p> elements
\* when there is one, the <text> elements otherwise, in the order of the
\* document
ChosenElements(es) ==
    IF \E i \in 1..Len(es) : es[i] \in NewElements
    THEN SelectSeq(es, LAMBDA e : e \in NewElements)
    ELSE es

(* C26: one format is chosen for the whole document. When the document     *)
(* has a <p t d> element the snippets are those of its <p t d> elements    *)
(* and every <text start dur> element is left out; the <text> elements are *)
(* read only when there is no <p> match; a document with neither gives the *)
(* empty list and no error; the snippets are in the order of the document, *)
(* not in the order of their times.                                        *)
C26_OneDialect ==
    Parsed =>
        /\ ret.kind = "return"
        /\ (~Occurs(call.xmlData, <<"<", "p">>) /\ ~Occurs(call.xmlData, <<"<", "t", "e", "x", "t">>))
               => ret.value = << >>
        /\ \A es \in SeqsUpTo(NewElements \cup OldElements, MaxElements) :
               call.xmlData = Concat(es) =>
                   LET chosen == ChosenElements(es)
                   IN  ret.value = [i \in 1..Len(chosen) |->
                                       SnippetOfElement(chosen[i], call.preserveFormatting)]

\* a <text> element before a <p> element: only the <p> element is read
C26_Witness ==
    /\ Parsed
    /\ call.xmlData = FirstOld \o SecondNew
    /\ Len(ret.value) = 1
    /\ ret.value[1].start = Number(1, 2)

\* two <p> elements, the later one first
C26_WitnessOrder ==
    /\ Parsed
    /\ call.xmlData = SecondNew \o FirstNew
    /\ Len(ret.value) = 2
    /\ ret.value[1].start = Number(1, 2)
    /\ ret.value[2].start = Number(136, 100)

\* a document with no element of either format
C26_WitnessNeither ==
    /\ Parsed
    /\ call.xmlData = <<"<", "t", "r", "a", "n", "s", "c", "r", "i", "p", "t", ">", "<", "/", "t", "r", "a", "n", "s", "c", "r", "i", "p", "t", ">">>
    /\ ret = Return(<< >>)

-----------------------------------------------------------------------------
(* Properties of the parser model: the entities *)

Entities ==
    {[name |-> <<"&", "a", "m", "p", ";">>, char |-> "&"],
     [name |-> <<"&", "l", "t", ";">>, char |-> "<"],
     [name |-> <<"&", "g", "t", ";">>, char |-> ">"],
     [name |-> <<"&", "q", "u", "o", "t", ";">>, char |-> "\""],
     [name |-> <<"&", "#", "3", "9", ";">>, char |-> "'"]}

\* the text from position i on with each entity of the text replaced by its
\* character, in one pass from left to right
RECURSIVE DecodedOnce(_, _)
DecodedOnce(text, i) ==
    IF i > Len(text) THEN << >>
    ELSE LET here == {e \in Entities : LitAt(text, i, e.name)}
         IN  IF here = {} THEN <<text[i]>> \o DecodedOnce(text, i + 1)
             ELSE LET e == CHOOSE x \in here : TRUE
                  IN  <<e.char>> \o DecodedOnce(text, i + Len(e.name))

(* C30: each entity of the content is decoded exactly once, and what the   *)
(* decoding of one entity gives is not read again as part of another       *)
(* entity: '&amp;lt;' gives '&lt;' and not '<', and '&amp;lt;b&amp;gt;' is   *)
(* not removed as a tag when the formatting is not preserved.              *)
C30_DecodedOnce ==
    \A isNewFormat \in BOOLEAN, t \in StartMillis, d \in DurMillis, c \in Contents :
        (Parsed /\ call.xmlData = OneElement(isNewFormat, t, d, c)) =>
            /\ Len(ret.value) = 1
            /\ ret.value[1].text =
                   trim(IF call.preserveFormatting THEN DecodedOnce(c, 1)
                        ELSE stripTags(DecodedOnce(c, 1)))

-----------------------------------------------------------------------------
(* Properties of the fetch model: the order of the steps *)

FetchCalled == call.op = "fetch"

\* the destinations of the requests sent so far
RequestsTo == [i \in 1..Len(requests) |-> requests[i].to]

PipelineOrder == <<"watchPage", "player", "timedText">>

(* C27: one call of YoutubeTranscript.fetch sends its requests in the      *)
(* order watch page, player API, timed text, the selection by language     *)
(* coming between the last two; a request is sent only when the step       *)
(* before it has succeeded; when the identifier, a check of the page, the  *)
(* listing or the selection fails, no later request is sent and the call   *)
(* gives no FetchedTranscript.                                             *)
C27_SequentialSteps ==
    FetchCalled =>
        /\ RequestsTo = SubSeq(PipelineOrder, 1, Len(requests))
        /\ idRet.kind = "throw" => (requests = << >> /\ ret = idRet /\ pc = "done")
        /\ Len(requests) >= 1 =>
               /\ idRet.kind = "return"
               /\ requests[1] = WatchPageRequest(frame.identifier)
        /\ Len(requests) >= 2 =>
               /\ frame.page # None
               /\ listFromWatchPage(frame.page[1], frame.identifier).kind = "return"
        /\ Len(requests) = 3 =>
               /\ frame.player # None
               /\ listFromPlayerResponse(frame.player[1], frame.identifier).kind = "return"
               /\ findTranscript(transcripts, listVideoId, frame.languages)
                      = Return(frame.transcript)
               /\ transcriptFetchStart(frame.transcript, TRUE)
                      = Return(requests[3].url)
        /\ (pc = "done" /\ frame.step # "transcript.fetch") =>
               /\ ret.kind = "throw"
               /\ Len(requests) = (CASE frame.step = "extractVideoId" -> 0
                                     [] frame.step = "list" /\ frame.player = None -> 1
                                     [] OTHER -> 2)
        /\ ret.kind = "return" =>
               /\ pc = "done"
               /\ Len(requests) = 3
               /\ frame.response = Some("ok")

\* the call went through the three requests and returned the transcript
C27_Witness ==
    /\ FetchCalled
    /\ pc = "done"
    /\ RequestsTo = PipelineOrder
    /\ ret.kind = "return"
    /\ Len(ret.value.snippets) > 0

\* the selection failed after the listing: two requests and no third
C27_WitnessSelection ==
    /\ FetchCalled
    /\ pc = "done"
    /\ frame.step = "findTranscript"
    /\ RequestsTo = <<"watchPage", "player">>
    /\ ret.kind = "throw"

-----------------------------------------------------------------------------
(* Properties of the catalog model: translating twice *)

\* how many times '&tlang=' stands in a URL
TlangCount(url) == Cardinality({i \in 1..Len(url) : url[i] = "&tlang="})

\* the handles of a state: those of the catalog, the one translate was
\* called on and the one it returned
HandlesOfState ==
    {transcripts[i] : i \in 1..Len(transcripts)}
    \cup (IF call.op = "translate" THEN {call.this, receiver} ELSE {})
    \cup (IF ret.kind = "return" THEN {ret.value} ELSE {})

(* C28: translations do not compose. Whenever translate succeeds on a      *)
(* handle, translate on the handle it returned fails with a translation    *)
(* error for every code, so no handle has a URL with more than one         *)
(* '&tlang=' added by translate.                                           *)
C28_TranslationDoesNotCompose ==
    /\ \A i \in 1..Len(transcripts), c1 \in TargetCodes, c2 \in TargetCodes :
          LET first == translate(transcripts[i], c1).out
          IN  first.kind = "return" =>
                  /\ translate(first.value, c2).out.kind = "throw"
                  /\ translate(first.value, c2).out.error.name
                         = "YoutubeTranscriptTranslationError"
    /\ (call.op = "translate" /\ call.index = 0) =>
          /\ ret.kind = "throw"
          /\ ret.error.name = "YoutubeTranscriptTranslationError"
    /\ \A h \in HandlesOfState : TlangCount(h.baseUrl) <= 1

\* translate was called on a handle that translate had returned, and failed
C28_Witness ==
    /\ call.op = "translate"
    /\ call.index = 0
    /\ TlangCount(call.this.baseUrl) = 1
    /\ ~call.this.isTranslatable
    /\ ret.kind = "throw"
    /\ ret.error.name = "YoutubeTranscriptTranslationError"

====
